---- MODULE Spec2Model ----
(***************************************************************************)
(* A model of rico8's module loader (src/module_loader.rs), of the parts   *)
(* of the parser it relies on (src/parser.rs), of the command-line         *)
(* pipeline (src/main.rs), of the lexer (src/lexer.rs) and of the          *)
(* parser's top-level loop (src/parser.rs).                                *)
(*                                                                         *)
(* A path is the sequence of its components, as std::path compares paths:  *)
(* "d/s/../a.rico8" is <<"d", "s", "..", "a.rico8">>.  PathBuf equality is  *)
(* equality of the component sequences; ".." is a component like any other *)
(* and is resolved only by the file system, when a path is looked up.      *)
(***************************************************************************)
EXTENDS Integers, Sequences, FiniteSets, TLC

VARIABLES
    fs,              \* the file system: canonical file path -> file content
    base_path,       \* ModuleLoader.base_path
    main_file,       \* the entry path handed to load_program
    pc,              \* position of the running operation
    loading_stack,   \* ModuleLoader.loading_stack
    loaded_modules,  \* ModuleLoader.loaded_modules
    frames,          \* the call stack of load_program / load_module_from_use
    result,          \* what load_program returned
    reached,         \* history: the use statements resolved so far
    via,             \* history: per frame, the import trail of each gathered item
    rSegs,           \* resolve_use_path: argument path_segments
    rCur,            \* resolve_use_path: argument current_file
    rResult,         \* resolve_use_path: returned value
    fItems,          \* filter_items_by_use_tree: argument items
    fTree,           \* filter_items_by_use_tree: argument tree
    fResult,         \* filter_items_by_use_tree: returned value
    cli,             \* the command-line pipeline of main
    lex,             \* tokenize: the Lexer and the tokens pushed so far
    prs,             \* parse_program: the Parser and the program built so far
    syn              \* parse: the tokens and what parse returned for them

vars == <<fs, base_path, main_file, pc, loading_stack, loaded_modules, frames,
          result, reached, via, rSegs, rCur, rResult, fItems, fTree, fResult, cli, lex, prs, syn>>

loaderVars == <<main_file, loading_stack, loaded_modules, frames, result, reached, via>>
resolveVars == <<rSegs, rCur, rResult>>
filterVars == <<fItems, fTree, fResult>>

(***************************************************************************)
(* Bounds.                                                                 *)
(***************************************************************************)
\* The longest path, in components, the file system still looks up: the
\* model's PATH_MAX.  A longer path does not exist (ENAMETOOLONG).
MaxPathLen == 7

\* The longest item list handed to filter_items_by_use_tree.
MaxItems == 3

\* The most use statements of one file.
MaxUses == 2

None == <<>>
Some(x) == <<x>>

Ok(v) == [tag |-> "Ok", val |-> v]
Err(kind, v) == [tag |-> "Err", kind |-> kind, val |-> v]

(***************************************************************************)
(* The file system.                                                        *)
(***************************************************************************)
\* The directories of the tree; the working directory is the root <<>>.
Dirs == {<<>>, <<"d">>, <<"d", "s">>}

Last(s) == s[Len(s)]
Front(s) == SubSeq(s, 1, Len(s) - 1)

NoEntry == <<"<no entry>">>

\* The directory reached from the canonical directory dir by following the
\* components comps[i..], all but the last one; NoEntry when a component on
\* the way is no directory.
RECURSIVE Walk(_, _, _)
Walk(dir, comps, i) ==
    IF i >= Len(comps) THEN dir
    ELSE IF comps[i] = ".."
         THEN Walk(IF dir = <<>> THEN dir ELSE Front(dir), comps, i + 1)
         ELSE IF Append(dir, comps[i]) \in Dirs
              THEN Walk(Append(dir, comps[i]), comps, i + 1)
              ELSE NoEntry

\* The canonical location a path names, NoEntry when nothing is there.
Canon(files, p) ==
    IF p = <<>> \/ Len(p) > MaxPathLen THEN NoEntry
    ELSE LET dir == Walk(<<>>, p, 1) IN
         IF dir = NoEntry THEN NoEntry
         ELSE IF Last(p) = ".."
              THEN (IF dir = <<>> THEN dir ELSE Front(dir))
              ELSE IF Append(dir, Last(p)) \in (Dirs \cup files)
                   THEN Append(dir, Last(p))
                   ELSE NoEntry

\* Path::exists: true of a file and of a directory.
Exists(files, p) == Canon(files, p) # NoEntry

\* fs::read_to_string succeeds on a regular file only.
IsFile(files, p) == Canon(files, p) \in files

(***************************************************************************)
(* resolve_use_path                                                        *)
(***************************************************************************)
extensions == <<"", ".rico8", ".r8">>

\* path_segments.join("/") and its crate / super variants, as components.
file_path(path_segments) ==
    IF path_segments[1] = "crate" THEN Tail(path_segments)
    ELSE IF path_segments[1] = "super" THEN <<"..">> \o Tail(path_segments)
    ELSE path_segments

\* format!("{}{}", file_path, ext): the extension extends the last component.
path_with_ext(rel, ext) ==
    IF rel = <<>> THEN (IF ext = "" THEN <<>> ELSE <<ext>>)
    ELSE Append(Front(rel), Last(rel) \o ext)

\* Path::parent
parent(p) == IF p = <<>> THEN None ELSE Some(Front(p))

current_dir(base, current_file) ==
    IF parent(current_file) = None THEN base ELSE parent(current_file)[1]

\* A variant of candidates that looks next to the importing file for a
\* crate:: path too.
candidates_crate_relative(base, path_segments, current_file, ext) ==
    LET rel == path_with_ext(file_path(path_segments), ext) IN
    <<current_dir(base, current_file) \o rel, base \o rel>>

\* The paths one round of the extension loop looks up, in order.
candidates(base, path_segments, current_file, ext) ==
    LET rel == path_with_ext(file_path(path_segments), ext) IN
    IF path_segments[1] = "crate"
    THEN <<base \o rel>>
    ELSE <<current_dir(base, current_file) \o rel, base \o rel>>

\* Every path the loop looks up, in the order of the lookups.
lookups(base, path_segments, current_file) ==
    candidates(base, path_segments, current_file, extensions[1])
      \o candidates(base, path_segments, current_file, extensions[2])
      \o candidates(base, path_segments, current_file, extensions[3])

RECURSIVE first_existing(_, _, _)
first_existing(files, paths, i) ==
    IF i > Len(paths) THEN None
    ELSE IF Exists(files, paths[i]) THEN Some(paths[i])
    ELSE first_existing(files, paths, i + 1)

resolve_use_path(files, base, path_segments, current_file) ==
    IF path_segments = <<>> THEN Err("ModuleNotFound", <<"empty path">>)
    ELSE LET hit == first_existing(files, lookups(base, path_segments, current_file), 1) IN
         IF hit = None
         THEN Err("ModuleNotFound", file_path(path_segments))
         ELSE Ok(hit[1])

(***************************************************************************)
(* The AST (src/ast.rs), as far as the loader reads it.                    *)
(***************************************************************************)
\* Type::Path(name), Type::Generic(name, args); NoType for an item that is
\* no impl block.
TypePath(name) == [tag |-> "Path", name |-> name, args |-> <<>>]
TypeGeneric(name, args) == [tag |-> "Generic", name |-> name, args |-> args]
NoType == [tag |-> "None", name |-> "", args |-> <<>>]

\* An item: its variant, its name, and for an impl block the implemented
\* trait and the target type.  body stands for the rest of the item (fields,
\* variants, methods, value): items are compared structurally.
NamedItem(kind, name, body) ==
    [kind |-> kind, name |-> name, trait_name |-> None, target_type |-> NoType,
     body |-> body]
ImplItem(trait_name, target_type, body) ==
    [kind |-> "Impl", name |-> "", trait_name |-> trait_name,
     target_type |-> target_type, body |-> body]
GlobalItem(body) ==
    [kind |-> "Global", name |-> "", trait_name |-> None, target_type |-> NoType,
     body |-> body]

\* UseTree
Simple(name) == [tag |-> "Simple", name |-> name, alias |-> "", trees |-> <<>>]
Glob == [tag |-> "Glob", name |-> "", alias |-> "", trees |-> <<>>]
List(trees) == [tag |-> "List", name |-> "", alias |-> "", trees |-> trees]
Alias(name, alias) == [tag |-> "Alias", name |-> name, alias |-> alias, trees |-> <<>>]

\* UseStatement
UseStatement(path, items) == [path |-> path, items |-> items]

\* Program
Program(imports, items) == [imports |-> imports, items |-> items]

(***************************************************************************)
(* filter_items_by_use_tree                                                *)
(***************************************************************************)
get_item_name(item) ==
    IF item.kind \in {"Struct", "Enum", "Trait", "Function", "Const"}
    THEN Some(item.name)
    ELSE None

\* A variant of Contains that never finds the element.
Contains_never(seq, x) == FALSE

Contains(seq, x) == \E i \in 1..Len(seq) : seq[i] = x

\* The first loop of the Simple and Alias arms: the items named name.
named_items(items, name) ==
    SelectSeq(items, LAMBDA item : get_item_name(item) = Some(name))

\* What the second loop of the Simple and Alias arms pushes for one item:
\* the impl block once when its target is the plain path name, and once
\* when it implements the trait name.
impl_pushes(item, name) ==
    IF item.kind # "Impl" THEN <<>>
    ELSE (IF item.target_type.tag = "Path" /\ item.target_type.name = name
          THEN <<item>> ELSE <<>>)
         \o (IF item.trait_name = Some(name) THEN <<item>> ELSE <<>>)

RECURSIVE impl_items(_, _, _)
impl_items(items, name, i) ==
    IF i > Len(items) THEN <<>>
    ELSE impl_pushes(items[i], name) \o impl_items(items, name, i + 1)

filter_by_name(items, name) ==
    named_items(items, name) \o impl_items(items, name, 1)

\* The List arm, first loop: the names of the Simple and Alias entries.
imported_names(trees) ==
    {trees[i].name : i \in {j \in 1..Len(trees) : trees[j].tag \in {"Simple", "Alias"}}}

\* The List arm, third loop, from item i on: an impl block of a listed type
\* or trait is pushed unless the result holds an equal item already.
RECURSIVE list_impls(_, _, _, _)
list_impls(items, names, res, i) ==
    IF i > Len(items) THEN res
    ELSE LET item == items[i]
             r1 == IF /\ item.kind = "Impl"
                      /\ item.target_type.tag = "Path"
                      /\ item.target_type.name \in names
                      /\ ~Contains(res, item)
                   THEN Append(res, item) ELSE res
             r2 == IF /\ item.kind = "Impl"
                      /\ item.trait_name # None
                      /\ item.trait_name[1] \in names
                      /\ ~Contains(r1, item)
                   THEN Append(r1, item) ELSE r1
         IN list_impls(items, names, r2, i + 1)

RECURSIVE filter_items_by_use_tree(_, _)
RECURSIVE list_entries(_, _, _)
\* The List arm, second loop: the per-entry selections, concatenated.
list_entries(items, trees, i) ==
    IF i > Len(trees) THEN <<>>
    ELSE filter_items_by_use_tree(items, trees[i]) \o list_entries(items, trees, i + 1)

filter_items_by_use_tree(items, tree) ==
    CASE tree.tag = "Glob" -> items
      [] tree.tag = "Simple" -> filter_by_name(items, tree.name)
      [] tree.tag = "Alias" -> filter_by_name(items, tree.name)
      [] tree.tag = "List" ->
            list_impls(items, imported_names(tree.trees),
                       list_entries(items, tree.trees, 1), 1)

(***************************************************************************)
(* Values of the variables an operation does not use.                      *)
(***************************************************************************)
IdleLoader ==
    /\ main_file = <<>>
    /\ pc = "idle"
    /\ loading_stack = <<>>
    /\ loaded_modules = {}
    /\ frames = <<>>
    /\ result = None
    /\ reached = {}
    /\ via = <<>>

IdleResolve == rSegs = <<>> /\ rCur = <<>> /\ rResult = None

IdleFilter == fItems = <<>> /\ fTree = Glob /\ fResult = None

IdleCli == cli = [pc |-> "idle"]

IdleLex == lex = [pc |-> "idle"]

IdleParse == prs = [pc |-> "idle"]
IdleSyn == syn = [pc |-> "idle"]

Range(seq) == {seq[i] : i \in 1..Len(seq)}

Count(seq, x) == Cardinality({i \in 1..Len(seq) : seq[i] = x})

\* A file whose content plays no part.
EmptyFile == [lexes |-> TRUE, uses |-> <<>>, chunks |-> <<>>]

(***************************************************************************)
(* resolve_use_path, applied to the use paths the parser can produce, in   *)
(* file systems that hold any of the files a path for module m can name.   *)
(***************************************************************************)
ResolveFiles ==
    {<<"d", "m">>, <<"d", "m.rico8">>, <<"d", "m.r8">>,
     <<"d", "s", "m">>, <<"d", "s", "m.rico8">>, <<"d", "s", "m.r8">>}

ResolveSegments ==
    {<<>>, <<"m">>, <<"s", "m">>, <<"crate">>, <<"crate", "m">>,
     <<"crate", "s", "m">>, <<"super", "m">>}

ResolveCurrentFiles == {<<"a.rico8">>, <<"d", "a.rico8">>, <<"d", "s", "b.rico8">>}

InitResolve ==
    /\ \E S \in SUBSET ResolveFiles : fs = [f \in S |-> EmptyFile]
    /\ base_path = <<"d">>
    /\ rSegs \in ResolveSegments
    /\ rCur \in ResolveCurrentFiles
    /\ rResult = None
    /\ IdleLoader /\ IdleFilter /\ IdleCli /\ IdleLex /\ IdleParse /\ IdleSyn

Resolve ==
    /\ rResult = None
    /\ rResult' = Some(resolve_use_path(DOMAIN fs, base_path, rSegs, rCur))
    /\ UNCHANGED <<fs, base_path, pc, rSegs, rCur, loaderVars, filterVars, cli, lex, prs, syn>>

NextResolve == Resolve

SpecResolve == InitResolve /\ [][NextResolve]_vars

\* The first extension, as an index of extensions, under which rel exists
\* in directory dir; 0 when it exists under none.
FirstExt(files, dir, rel) ==
    LET E == {i \in 1..Len(extensions) :
                Exists(files, dir \o path_with_ext(rel, extensions[i]))}
    IN IF E = {} THEN 0 ELSE CHOOSE i \in E : \A j \in E : i <= j

\* C8: a path without a leading crate resolves next to the importing file
\* whenever the module exists there under any extension, whatever the base
\* directory holds.
C8_RelativeFirst ==
    (rResult # None /\ rSegs # <<>> /\ rSegs[1] # "crate") =>
        LET dir == current_dir(base_path, rCur)
            rel == file_path(rSegs)
            e == FirstExt(DOMAIN fs, dir, rel)
        IN e # 0 => rResult[1] = Ok(dir \o path_with_ext(rel, extensions[e]))

FilterItems ==
    {NamedItem("Struct", "Foo", "s1"),
     NamedItem("Struct", "Bar", "s2"),
     NamedItem("Trait", "Tr", "t1"),
     NamedItem("Function", "helper", "f1"),
     GlobalItem("g1"),
     ImplItem(None, TypePath("Foo"), "i1"),
     ImplItem(None, TypeGeneric("Foo", <<"T">>), "i2"),
     ImplItem(Some("Tr"), TypePath("Foo"), "i3"),
     ImplItem(Some("Tr"), TypePath("Bar"), "i4")}

FilterTrees ==
    {Glob, Simple("Foo"), Simple("Tr"), Alias("Foo", "F"),
     List(<<>>), List(<<Simple("Foo")>>), List(<<Simple("Foo"), Simple("Tr")>>),
     List(<<Simple("Tr"), Simple("Foo")>>), List(<<Simple("Bar"), Alias("Foo", "F")>>)}

ItemSeqs == UNION {[1..n -> FilterItems] : n \in 0..MaxItems}

InitFilter ==
    /\ fItems \in ItemSeqs
    /\ fTree \in FilterTrees
    /\ fResult = None
    /\ fs = <<>> /\ base_path = <<>>
    /\ IdleLoader /\ IdleResolve /\ IdleCli /\ IdleLex /\ IdleParse /\ IdleSyn

Filter ==
    /\ fResult = None
    /\ fResult' = Some(filter_items_by_use_tree(fItems, fTree))
    /\ UNCHANGED <<fs, base_path, pc, fItems, fTree, loaderVars, resolveVars, cli, lex, prs, syn>>

NextFilter == Filter

SpecFilter == InitFilter /\ [][NextFilter]_vars

\* The name of an impl block's target type, written with or without type
\* arguments.
TargetName(item) ==
    IF item.target_type.tag \in {"Path", "Generic"} THEN Some(item.target_type.name)
    ELSE None

\* What a use of name selects: the items named name and the impl blocks of
\* the type or of the trait name.
Selects(name, item) ==
    \/ get_item_name(item) = Some(name)
    \/ item.kind = "Impl" /\ (TargetName(item) = Some(name) \/ item.trait_name = Some(name))

\* C4: for Simple(name) and Alias(name, _) the filter returns exactly the
\* items named name and the impl blocks whose target type, with or without
\* type arguments, or whose trait is named name.
C4_SimpleSelectsExactly ==
    (fResult # None /\ fTree.tag \in {"Simple", "Alias"}) =>
        Range(fResult[1]) = {it \in Range(fItems) : Selects(fTree.name, it)}

\* C5: for a List the filter returns the per-entry selections and the impl
\* blocks of the listed names, and no impl block of the module more often
\* than the module holds it.
C5_ListUnionImplOnce ==
    (fResult # None /\ fTree.tag = "List") =>
        /\ Range(fResult[1]) =
              UNION {Range(filter_items_by_use_tree(fItems, fTree.trees[i])) :
                       i \in 1..Len(fTree.trees)}
              \cup {it \in Range(fItems) :
                      /\ it.kind = "Impl"
                      /\ \E n \in imported_names(fTree.trees) :
                            \/ it.target_type = TypePath(n)
                            \/ it.trait_name = Some(n)}
        /\ \A it \in Range(fItems) :
              it.kind = "Impl" => Count(fResult[1], it) <= Count(fItems, it)

(***************************************************************************)
(* Source files and the parser's view of them (src/parser.rs).             *)
(*                                                                         *)
(* A file is its use statements followed by its top-level chunks, each     *)
(* chunk being the token it starts with, the item it spells out and, for   *)
(* an impl block, the token each of its methods starts with.  lexes tells  *)
(* whether lexer::tokenize accepts the text.                               *)
(***************************************************************************)
Chunk(lead, item, inner) == [lead |-> lead, item |-> item, inner |-> inner]

SourceFile(lexes, uses, chunks) == [lexes |-> lexes, uses |-> uses, chunks |-> chunks]

\* A variant of ItemKeywords that lets an item start with `use`.
ItemKeywords_with_use == {"Struct", "Enum", "Trait", "Impl", "Fn", "Const", "Let", "Use"}

\* parse_item: the token an item may start with.
ItemKeywords == {"Struct", "Enum", "Trait", "Impl", "Fn", "Const", "Let"}

\* parse_impl: every method of the block is parsed by parse_function,
\* which expects the fn keyword first.
parse_impl(chunk) ==
    LET bad == {i \in 1..Len(chunk.inner) : chunk.inner[i] # "Fn"} IN
    IF bad = {}
    THEN Ok(chunk.item)
    ELSE Err("UnexpectedToken", <<"Fn", chunk.inner[CHOOSE i \in bad : \A j \in bad : i <= j]>>)

parse_item(chunk) ==
    IF chunk.lead = "Impl" THEN parse_impl(chunk)
    ELSE IF chunk.lead \in ItemKeywords THEN Ok(chunk.item)
    ELSE Err("UnexpectedToken", <<"item", chunk.lead>>)

\* parse_program: the use statements, then items up to the end of input;
\* the first chunk parse_item rejects ends the parse.
parse_program(file) ==
    LET bad == {i \in 1..Len(file.chunks) : parse_item(file.chunks[i]).tag = "Err"} IN
    IF bad = {}
    THEN Ok(Program(file.uses, [i \in 1..Len(file.chunks) |-> file.chunks[i].item]))
    ELSE parse_item(file.chunks[CHOOSE i \in bad : \A j \in bad : i <= j])

\* fs::read_to_string, lexer::tokenize and parser::parse of the file at
\* path p, with the loader's mapping of their errors.
read_and_parse(fsys, p) ==
    IF ~IsFile(DOMAIN fsys, p) THEN Err("IoError", p)
    ELSE LET file == fsys[Canon(DOMAIN fsys, p)] IN
         IF ~file.lexes THEN Err("ParseError", <<"Lexer error">>)
         ELSE IF parse_program(file).tag = "Err" THEN Err("ParseError", <<"Parser error">>)
         ELSE parse_program(file)

(***************************************************************************)
(* The source tree the loader runs on: an entry module a in the base       *)
(* directory d, a module b in the sub-directory d/s, a module c and the    *)
(* player module of the import test next to a, and a file x that does not  *)
(* lex.  a and b import through any of the use statements below.           *)
(***************************************************************************)
PathA == <<"d", "a.rico8">>
PathB == <<"d", "s", "b.rico8">>
PathC == <<"d", "c.rico8">>
PathPlayer == <<"d", "player.rico8">>
PathX == <<"d", "x.rico8">>

ItemsA == <<Chunk("Struct", NamedItem("Struct", "A", "a1"), <<>>),
            Chunk("Fn", NamedItem("Function", "main", "a2"), <<>>)>>

ItemsB == <<Chunk("Struct", NamedItem("Struct", "Foo", "b1"), <<>>),
            Chunk("Impl", ImplItem(None, TypePath("Foo"), "b2"), <<"Fn">>),
            Chunk("Struct", NamedItem("Struct", "Bar", "b3"), <<>>),
            Chunk("Fn", NamedItem("Function", "helper", "b4"), <<>>)>>

ItemsC == <<Chunk("Trait", NamedItem("Trait", "Tr", "c1"), <<>>),
            Chunk("Struct", NamedItem("Struct", "C", "c2"), <<>>),
            Chunk("Impl", ImplItem(Some("Tr"), TypePath("C"), "c3"), <<"Fn">>)>>

\* pub struct Player { .. }  impl Player { pub fn new() -> Player { .. } }
ItemsPlayer == <<Chunk("Pub", NamedItem("Struct", "Player", "p1"), <<>>),
                 Chunk("Impl", ImplItem(None, TypePath("Player"), "p2"), <<"Pub">>)>>

UsesOfA ==
    {UseStatement(<<"s", "b">>, Simple("Foo")),
     UseStatement(<<"s", "b">>, Simple("Bar")),
     UseStatement(<<"crate", "s", "b">>, List(<<Simple("Bar"), Simple("Foo")>>)),
     UseStatement(<<"c">>, Glob),
     UseStatement(<<"player">>, Simple("Player"))}

UsesOfB ==
    {UseStatement(<<"a">>, Simple("A")),
     UseStatement(<<"super", "a">>, Simple("A")),
     UseStatement(<<"c">>, Simple("C")),
     UseStatement(<<"super", "c">>, Simple("Tr"))}

UseSeqs(pool) == UNION {[1..n -> pool] : n \in 0..MaxUses}

SourceTree(usesA, usesB) ==
    (PathA :> SourceFile(TRUE, usesA, ItemsA))
      @@ (PathB :> SourceFile(TRUE, usesB, ItemsB))
      @@ (PathC :> SourceFile(TRUE, <<>>, ItemsC))
      @@ (PathPlayer :> SourceFile(TRUE, <<>>, ItemsPlayer))
      @@ (PathX :> SourceFile(FALSE, <<>>, <<>>))

SourceTrees == {SourceTree(ua, ub) : ua \in UseSeqs(UsesOfA), ub \in UseSeqs(UsesOfB)}

EntryFiles == {PathA, PathB, PathPlayer, PathX, <<"d", "nofile.rico8">>}

(***************************************************************************)
(* load_program, one step per call of and return from                      *)
(* load_module_from_use.                                                   *)
(***************************************************************************)
\* A call in progress: the file being loaded, its parsed program, the index
\* of the use statement in hand, the items gathered so far, and the
\* use-tree of the statement that imports the file.
Frame(file, program, tree) ==
    [file |-> file, program |-> program, idx |-> 1, items |-> <<>>, tree |-> tree]

Top == frames[Len(frames)]

\* The positions of the use statements in hand, from the entry file down to
\* frame k: the import trail of frame k.
Trail(k) == [i \in 1..(k - 1) |-> frames[i].idx]

\* A variant of extend that puts the new items in front.
extend_front(vec, more) == more \o vec

\* Vec::extend
extend(vec, more) == vec \o more

Init ==
    /\ fs \in SourceTrees
    /\ base_path = <<"d">>
    /\ main_file \in EntryFiles
    /\ pc = "start"
    /\ loading_stack = <<>>
    /\ loaded_modules = {}
    /\ frames = <<>>
    /\ result = None
    /\ reached = {}
    /\ via = <<>>
    /\ IdleResolve /\ IdleFilter /\ IdleCli /\ IdleLex /\ IdleParse /\ IdleSyn

\* An error return: `?` unwinds every call; the loader's state stays.
Fail(err) ==
    /\ result' = Some(err)
    /\ pc' = "done"
    /\ frames' = <<>>
    /\ via' = <<>>
    /\ UNCHANGED <<loading_stack, loaded_modules>>

\* load_program up to the loop over the imports.
LoadProgramStart ==
    /\ pc = "start"
    /\ LET parsed == read_and_parse(fs, main_file) IN
       IF parsed.tag = "Err"
       THEN Fail(parsed)
       ELSE /\ loading_stack' = Append(loading_stack, main_file)
            /\ frames' = <<Frame(main_file, parsed.val, Glob)>>
            /\ via' = <<<<>>>>
            /\ pc' = "loading"
            /\ UNCHANGED <<loaded_modules, result>>
    /\ UNCHANGED <<fs, base_path, main_file, reached, resolveVars, filterVars, cli, lex, prs, syn>>

\* load_module_from_use up to the loop over the nested imports, called for
\* the use statement in hand of the running call.
LoadModuleFromUse ==
    /\ pc = "loading"
    /\ Top.idx <= Len(Top.program.imports)
    /\ LET use_stmt == Top.program.imports[Top.idx]
           resolved == resolve_use_path(DOMAIN fs, base_path, use_stmt.path, Top.file)
           module_file_path == resolved.val
           parsed == read_and_parse(fs, module_file_path)
       IN
       IF resolved.tag = "Err"
       THEN Fail(resolved) /\ UNCHANGED reached
       ELSE /\ reached' = reached \cup
                 {[from |-> Canon(DOMAIN fs, Top.file),
                   target |-> Canon(DOMAIN fs, module_file_path),
                   tree |-> use_stmt.items]}
            /\ IF Contains(loading_stack, module_file_path)
               THEN Fail(Err("CircularDependency", module_file_path))
               ELSE IF module_file_path \in loaded_modules
               THEN /\ frames' = [frames EXCEPT ![Len(frames)].idx = @ + 1]
                    /\ UNCHANGED <<loading_stack, loaded_modules, result, pc, via>>
               ELSE IF parsed.tag = "Err"
               THEN Fail(parsed)
               ELSE /\ loading_stack' = Append(loading_stack, module_file_path)
                    /\ frames' = Append(frames,
                                        Frame(module_file_path, parsed.val, use_stmt.items))
                    /\ via' = Append(via, <<>>)
                    /\ UNCHANGED <<loaded_modules, result, pc>>
    /\ UNCHANGED <<fs, base_path, main_file, resolveVars, filterVars, cli, lex, prs, syn>>

\* The rest of load_module_from_use once the nested imports are processed,
\* and the caller's extend with the returned items.
ModuleReturn ==
    /\ pc = "loading"
    /\ Len(frames) > 1
    /\ Top.idx > Len(Top.program.imports)
    /\ LET n == Len(frames)
           filtered_items == filter_items_by_use_tree(Top.program.items, Top.tree)
           module_items == extend(Top.items, filtered_items)
           module_via == via[n] \o [i \in 1..Len(filtered_items) |-> Trail(n)]
       IN
       /\ loading_stack' = Front(loading_stack)
       /\ loaded_modules' = loaded_modules \cup {Top.file}
       /\ frames' = [Front(frames) EXCEPT
                       ![n - 1].items = extend(@, module_items),
                       ![n - 1].idx = @ + 1]
       /\ via' = [Front(via) EXCEPT ![n - 1] = @ \o module_via]
    /\ UNCHANGED <<fs, base_path, main_file, pc, result, reached,
                   resolveVars, filterVars, cli, lex, prs, syn>>

\* The rest of load_program once the imports are processed.
LoadProgramFinish ==
    /\ pc = "loading"
    /\ Len(frames) = 1
    /\ Top.idx > Len(Top.program.imports)
    /\ loading_stack' = Front(loading_stack)
    /\ loaded_modules' = loaded_modules \cup {main_file}
    /\ result' = Some(Ok(Program(Top.program.imports,
                                 extend(Top.items, Top.program.items))))
    /\ via' = <<via[1] \o [i \in 1..Len(Top.program.items) |-> <<>>]>>
    /\ frames' = <<>>
    /\ pc' = "done"
    /\ UNCHANGED <<fs, base_path, main_file, reached, resolveVars, filterVars, cli, lex, prs, syn>>

Next ==
    \/ LoadProgramStart
    \/ LoadModuleFromUse
    \/ ModuleReturn
    \/ LoadProgramFinish

Spec == Init /\ [][Next]_vars

(***************************************************************************)
(* Properties of load_program.                                             *)
(***************************************************************************)
Done == pc = "done"
Returned == IF result = None THEN Err("None", <<>>) ELSE result[1]
LoadedOk == Done /\ Returned.tag = "Ok"
Merged == Returned.val.items

\* The parsed items of the module at the canonical location f.
ModuleItems(f) == [i \in 1..Len(fs[f].chunks) |-> fs[f].chunks[i].item]

\* The canonical location the use statement u, written in the file read
\* from path cur, resolves to; NoEntry when it resolves to nothing.
TargetOf(u, cur) ==
    LET r == resolve_use_path(DOMAIN fs, base_path, u.path, cur) IN
    IF r.tag = "Ok" THEN Canon(DOMAIN fs, r.val) ELSE NoEntry

\* Files f and g import each other and nothing else.
ImportEachOther(f, g) ==
    /\ f # g /\ f \in DOMAIN fs /\ g \in DOMAIN fs
    /\ Len(fs[f].uses) = 1 /\ TargetOf(fs[f].uses[1], f) = g
    /\ Len(fs[g].uses) = 1 /\ TargetOf(fs[g].uses[1], g) = f

\* No file is being loaded twice at once: the paths on the loading stack
\* name different files.
NoFileLoadingTwice ==
    \A i \in 1..Len(loading_stack) : \A j \in 1..Len(loading_stack) :
        i # j => Canon(DOMAIN fs, loading_stack[i]) # Canon(DOMAIN fs, loading_stack[j])

\* C1: when the entry file and another file import each other, however the
\* two use paths are spelled, the load never starts on a file it is already
\* loading, and load_program ends with CircularDependency.
C1_CycleDetected ==
    (\E g \in DOMAIN fs : ImportEachOther(main_file, g)) =>
        /\ NoFileLoadingTwice
        /\ Done => (Returned.tag = "Err" /\ Returned.kind = "CircularDependency")

\* C2: when a module is imported from two different files during a load
\* that succeeds, each of its items occurs at most once in the merged items.
C2_ItemsAtMostOnce ==
    LoadedOk =>
        \A r1 \in reached : \A r2 \in reached :
            (r1.target = r2.target /\ r1.from # r2.from /\ r1.target \in DOMAIN fs) =>
                \A it \in Range(ModuleItems(r1.target)) : Count(Merged, it) <= 1

\* What a use-tree selects of a module's items.
TreeSelects(tree, item) ==
    CASE tree.tag = "Glob" -> TRUE
      [] tree.tag \in {"Simple", "Alias"} -> Selects(tree.name, item)
      [] tree.tag = "List" ->
            \E i \in 1..Len(tree.trees) : Selects(tree.trees[i].name, item)

\* C3: after a load that succeeds, every item that a use statement met
\* during the load selects of its target module is among the merged items.
C3_SelectedItemsPresent ==
    LoadedOk =>
        \A r \in reached :
            r.target \in DOMAIN fs =>
                \A it \in Range(ModuleItems(r.target)) :
                    TreeSelects(r.tree, it) => Contains(Merged, it)

\* Trail p comes no later than trail q in a depth-first traversal that
\* visits a file's imports, in order, before the file itself.
IsProperPrefix(q, p) == Len(q) < Len(p) /\ SubSeq(p, 1, Len(q)) = q

TrailBefore(p, q) ==
    \/ p = q
    \/ IsProperPrefix(q, p)
    \/ \E k \in 1..Len(p) :
          /\ k <= Len(q)
          /\ p[k] < q[k]
          /\ \A m \in 1..(k - 1) : p[m] = q[m]

\* The merged items follow the depth-first traversal of the imports.
DepthFirstOrdered ==
    \A i \in 1..Len(via[1]) : \A j \in 1..Len(via[1]) :
        i < j => TrailBefore(via[1][i], via[1][j])

\* The entry file's own items, in source order, end the merged list.
EntryItemsLast ==
    LET own == ModuleItems(Canon(DOMAIN fs, main_file)) IN
    /\ Len(Merged) >= Len(own)
    /\ SubSeq(Merged, Len(Merged) - Len(own) + 1, Len(Merged)) = own

\* The position of an item in the source file that defines it.
SourcePos(item) ==
    LET f == CHOOSE g \in DOMAIN fs : Contains(ModuleItems(g), item) IN
    CHOOSE i \in 1..Len(ModuleItems(f)) : ModuleItems(f)[i] = item

\* The items one import contributes keep their source order.
OwnItemsInSourceOrder ==
    \A i \in 1..Len(Merged) : \A j \in 1..Len(Merged) :
        (i < j /\ via[1][i] = via[1][j]) => SourcePos(Merged[i]) < SourcePos(Merged[j])

C7_ImportsNotCarried ==
    LoadedOk => Returned.val.imports = <<>>

\* The loading stack holds the files of the calls in progress, outermost
\* first, no path twice, and no path that is in the loaded set.
StackHoldsCallsInProgress ==
    /\ pc = "loading" =>
          loading_stack = [i \in 1..Len(frames) |-> frames[i].file]
    /\ \A i \in 1..Len(loading_stack) : \A j \in 1..Len(loading_stack) :
          i # j => loading_stack[i] # loading_stack[j]
    /\ \A i \in 1..Len(loading_stack) : loading_stack[i] \notin loaded_modules

\* One step of the loader pushes a path that is not in the loaded set, or
\* pops the top path and adds exactly that path to the loaded set, or leaves
\* the stack and the loaded set alone.
StackStep ==
    \/ /\ loading_stack' = loading_stack
       /\ loaded_modules' = loaded_modules
    \/ /\ Len(loading_stack') = Len(loading_stack) + 1
       /\ Front(loading_stack') = loading_stack
       /\ Last(loading_stack') \notin loaded_modules
       /\ loaded_modules' = loaded_modules
    \/ /\ loading_stack # <<>>
       /\ loading_stack' = Front(loading_stack)
       /\ loaded_modules' = loaded_modules \cup {Last(loading_stack)}

\* After load_program returned Ok the stack is empty and the loaded set
\* holds the entry file and a path of every module an import resolved to.
LoadedSetComplete ==
    LoadedOk =>
        /\ loading_stack = <<>>
        /\ main_file \in loaded_modules
        /\ \A r \in reached :
              \E p \in loaded_modules : Canon(DOMAIN fs, p) = r.target

\* C25: a path is on the loading stack exactly while the nested imports of
\* its module are processed and enters the loaded set in the step that pops
\* it; no path is twice on the stack or both on the stack and in the loaded
\* set; after an Ok return the stack is empty and the loaded set holds the
\* entry file and every module parsed.
C25_StackDiscipline ==
    /\ [](StackHoldsCallsInProgress /\ LoadedSetComplete)
    /\ [][StackStep]_vars

\* C25's case: a load that returned Ok after an import nested in an import.
C25_Witness ==
    /\ LoadedOk
    /\ Cardinality(loaded_modules) >= 3
    /\ \E i \in 1..Len(via[1]) : Len(via[1][i]) = 2

\* The entry file a imports b first, and b imports c and nothing else.
EntryImportsBImportsC ==
    /\ main_file = PathA
    /\ Len(fs[PathA].uses) >= 1
    /\ TargetOf(fs[PathA].uses[1], PathA) = PathB
    /\ Len(fs[PathB].uses) = 1
    /\ TargetOf(fs[PathB].uses[1], PathB) = PathC

\* What b gathered from c, filtered by b's use-tree only.
GatheredByB == filter_items_by_use_tree(ModuleItems(PathC), fs[PathB].uses[1].items)

\* The own items of b the use-tree of a selects.
OwnOfB == filter_items_by_use_tree(ModuleItems(PathB), fs[PathA].uses[1].items)

\* A return of load_module_from_use hands the caller the items the module
\* gathered, unfiltered, and after them its own items filtered by the
\* caller's use-tree.
ReturnsGatheredThenFiltered ==
    (pc = "loading" /\ Len(frames) > 1 /\ Len(frames') = Len(frames) - 1) =>
        frames'[Len(frames')].items =
            frames[Len(frames')].items \o Top.items
                \o filter_items_by_use_tree(Top.program.items, Top.tree)

\* C26: the importer's use-tree filters only the own items of the imported
\* module; the items that module gathered through its own use statements
\* all reach the importer, in front of the filtered own items.
C26_FilterOwnItemsOnly ==
    /\ []((LoadedOk /\ EntryImportsBImportsC) =>
            /\ Len(Merged) >= Len(GatheredByB) + Len(OwnOfB)
            /\ SubSeq(Merged, 1, Len(GatheredByB) + Len(OwnOfB)) = GatheredByB \o OwnOfB)
    /\ [][ReturnsGatheredThenFiltered]_vars

\* C26's case: a imports b with a use-tree that names one item of b, b
\* gathered items from c, and none of them has the name the tree of a asks
\* for.
C26_Witness ==
    /\ LoadedOk /\ EntryImportsBImportsC
    /\ fs[PathA].uses[1].items.tag = "Simple"
    /\ GatheredByB # <<>> /\ OwnOfB # <<>>
    /\ filter_items_by_use_tree(GatheredByB, fs[PathA].uses[1].items) = <<>>

(***************************************************************************)
(* The command-line pipeline (src/main.rs): read, tokenize, parse,         *)
(* generate, write.                                                        *)
(***************************************************************************)
\* codegen::generate: one emitted declaration per item of the program, in
\* the order of the items.
generate(ast) == [i \in 1..Len(ast.items) |-> [emits |-> ast.items[i]]]

CliStart(input) ==
    [pc |-> "start", input |-> input, source |-> None, ast |-> None,
     handed |-> None, lua |-> None, written |-> None, status |-> "running"]

\* A variant of CliExit that leaves an output file behind.
CliExit_writing(status) ==
    [cli EXCEPT !.pc = "exit", !.status = status, !.written = Some(<<>>)]

CliExit(status) == [cli EXCEPT !.pc = "exit", !.status = status]

InitMain ==
    /\ fs \in SourceTrees
    /\ base_path = <<"d">>
    /\ \E input \in EntryFiles : cli = CliStart(input)
    /\ IdleLoader /\ IdleResolve /\ IdleFilter /\ IdleLex /\ IdleParse /\ IdleSyn

\* fs::read_to_string(&cli.input)?
MainRead ==
    /\ cli.pc = "start"
    /\ cli' = IF IsFile(DOMAIN fs, cli.input)
              THEN [cli EXCEPT !.pc = "read",
                               !.source = Some(fs[Canon(DOMAIN fs, cli.input)])]
              ELSE CliExit("IoError")
    /\ UNCHANGED <<fs, base_path, pc, loaderVars, resolveVars, filterVars, lex, prs, syn>>

\* lexer::tokenize(&source)
MainTokenize ==
    /\ cli.pc = "read"
    /\ cli' = IF cli.source[1].lexes
              THEN [cli EXCEPT !.pc = "lexed"]
              ELSE CliExit("LexerError")
    /\ UNCHANGED <<fs, base_path, pc, loaderVars, resolveVars, filterVars, lex, prs, syn>>

\* parser::parse(tokens)
MainParse ==
    /\ cli.pc = "lexed"
    /\ cli' = IF parse_program(cli.source[1]).tag = "Ok"
              THEN [cli EXCEPT !.pc = "parsed",
                               !.ast = Some(parse_program(cli.source[1]).val)]
              ELSE CliExit("ParseError")
    /\ UNCHANGED <<fs, base_path, pc, loaderVars, resolveVars, filterVars, lex, prs, syn>>

\* codegen::generate(ast)?
MainGenerate ==
    /\ cli.pc = "parsed"
    /\ \E ok \in {TRUE, FALSE} :
          cli' = IF ok
                 THEN [cli EXCEPT !.pc = "generated", !.handed = cli.ast,
                                  !.lua = Some(generate(cli.ast[1]))]
                 ELSE [CliExit("GenerateError") EXCEPT !.handed = cli.ast]
    /\ UNCHANGED <<fs, base_path, pc, loaderVars, resolveVars, filterVars, lex, prs, syn>>

\* fs::write(&output_path, lua_code)?
MainWrite ==
    /\ cli.pc = "generated"
    /\ \E ok \in {TRUE, FALSE} :
          cli' = IF ok
                 THEN [CliExit("Ok") EXCEPT !.written = cli.lua]
                 ELSE CliExit("IoError")
    /\ UNCHANGED <<fs, base_path, pc, loaderVars, resolveVars, filterVars, lex, prs, syn>>

NextMain ==
    \/ MainRead
    \/ MainTokenize
    \/ MainParse
    \/ MainGenerate
    \/ MainWrite

SpecMain == InitMain /\ [][NextMain]_vars

\* The entry file of the import test: its one use statement is
\* `use player::Player;`, and player.rico8 lies next to it.
ImportsPlayer ==
    /\ cli.input = PathA
    /\ fs[PathA].uses = <<UseStatement(<<"player">>, Simple("Player"))>>
    /\ PathPlayer \in DOMAIN fs

\* C10: compiling the entry file of the import test fails neither in the
\* lexer nor in the parser, and the program that is handed to the code
\* generator holds the imported Player struct and its impl block.
C10_ImportedPlayerHanded ==
    ImportsPlayer =>
        /\ cli.pc = "exit" => cli.status \notin {"LexerError", "ParseError"}
        /\ cli.handed # None =>
              \A i \in 1..Len(ItemsPlayer) :
                  Contains(cli.handed[1].items, ItemsPlayer[i].item)

\* C11: the output file is written only by a run that read, lexed, parsed
\* and generated successfully, and a run that ends with an error has
\* written nothing.
C11_WriteOnlyAfterSuccess ==
    /\ cli.pc # "idle" /\ cli.written # None =>
          /\ cli.status = "Ok"
          /\ cli.source # None /\ cli.source[1].lexes
          /\ cli.ast # None /\ parse_program(cli.source[1]) = Ok(cli.ast[1])
          /\ cli.lua # None /\ cli.written = cli.lua
    /\ cli.pc = "exit" /\ cli.status # "Ok" => cli.written = None

\* C11's case: a run that failed in the parser has exited.
C11_Witness ==
    cli.pc = "exit" /\ cli.status = "ParseError" /\ cli.written = None

(***************************************************************************)
(* The lexer (src/lexer.rs).                                               *)
(*                                                                         *)
(* A source text is the sequence of its characters, as Lexer::new collects *)
(* it into a Vec<char>; a character is a one-character string, and         *)
(* "U+00E9" stands for the two-byte letter e-acute.  Positions count from  *)
(* 0 as in the code: the character at position p is input[p + 1].          *)
(***************************************************************************)
\* The longest source text handed to tokenize.
MaxInput == 4

I32Max == 2147483647

Letters == {"a", "b", "c", "d", "e", "f", "g", "h", "i", "l", "m", "n", "o", "p",
            "r", "s", "t", "u", "w", "x", "F", "U+00E9"}
Digits == {"0", "1", "2", "3", "4", "5", "6", "7", "8", "9"}

\* char::len_utf8
len_utf8(ch) == IF ch = "U+00E9" THEN 2 ELSE 1

is_whitespace(ch) == ch \in {" ", "\n"}
is_alphabetic(ch) == ch \in Letters
is_ascii_digit(ch) == ch \in Digits
is_alphanumeric(ch) == ch \in Letters \cup Digits
\* A variant of is_ascii_hexdigit that knows the lower-case digits only.
is_ascii_hexdigit_lower(ch) == ch \in Digits \cup {"a", "b", "c", "d", "e", "f"}

is_ascii_hexdigit(ch) == ch \in Digits \cup {"a", "b", "c", "d", "e", "f", "F"}

\* char::to_digit(16)
to_digit(ch) ==
    CASE ch = "0" -> 0 [] ch = "1" -> 1 [] ch = "2" -> 2 [] ch = "3" -> 3
      [] ch = "4" -> 4 [] ch = "5" -> 5 [] ch = "6" -> 6 [] ch = "7" -> 7
      [] ch = "8" -> 8 [] ch = "9" -> 9 [] ch = "a" -> 10 [] ch = "b" -> 11
      [] ch = "c" -> 12 [] ch = "d" -> 13 [] ch = "e" -> 14
      [] ch \in {"f", "F"} -> 15

\* Token
Tok(tag) == [tag |-> tag]
Ident(name) == [tag |-> "Ident", name |-> name]
IntLiteral(n) == [tag |-> "IntLiteral", int |-> n]
FloatLiteral(whole, frac) == [tag |-> "FloatLiteral", whole |-> whole, frac |-> frac]
StringLiteral(string) == [tag |-> "StringLiteral", string |-> string]
CharLiteral(ch) == [tag |-> "CharLiteral", ch |-> ch]
BoolLiteral(b) == [tag |-> "BoolLiteral", bool |-> b]
Eof == Tok("Eof")

\* Lexer.current and Lexer::peek at position pos.
current(input, pos) == IF pos < Len(input) THEN Some(input[pos + 1]) ELSE None
peek(input, pos) == current(input, pos + 1)

\* skip_whitespace, the inner loop: to the end of the line of a comment.
RECURSIVE skip_line(_, _)
skip_line(input, pos) ==
    IF current(input, pos) # None /\ current(input, pos) # Some("\n")
    THEN skip_line(input, pos + 1)
    ELSE pos

\* skip_whitespace: the position of the first character that is neither
\* white space nor part of a // comment.
RECURSIVE skip_whitespace(_, _)
skip_whitespace(input, pos) ==
    IF current(input, pos) = None THEN pos
    ELSE LET ch == current(input, pos)[1] IN
         IF is_whitespace(ch) THEN skip_whitespace(input, pos + 1)
         ELSE IF ch = "/" /\ peek(input, pos) = Some("/")
              THEN skip_whitespace(input, skip_line(input, pos + 2))
              ELSE pos

\* read_ident: the identifier text and the position after it.
RECURSIVE read_ident(_, _, _)
read_ident(input, pos, ident) ==
    IF current(input, pos) # None
       /\ (is_alphanumeric(current(input, pos)[1]) \/ current(input, pos)[1] = "_")
    THEN read_ident(input, pos + 1, ident \o current(input, pos)[1])
    ELSE [ident |-> ident, pos |-> pos]

\* The keyword table of next_token.
Keywords ==
    [k \in {"as", "struct", "enum", "trait", "impl", "fn", "let", "const", "mut",
            "if", "else", "while", "for", "in", "match", "return", "self", "use",
            "mod", "pub", "super", "crate", "true", "false", "_"} |->
        CASE k = "as" -> Tok("As") [] k = "struct" -> Tok("Struct")
          [] k = "enum" -> Tok("Enum") [] k = "trait" -> Tok("Trait")
          [] k = "impl" -> Tok("Impl") [] k = "fn" -> Tok("Fn")
          [] k = "let" -> Tok("Let") [] k = "const" -> Tok("Const")
          [] k = "mut" -> Tok("Mut") [] k = "if" -> Tok("If")
          [] k = "else" -> Tok("Else") [] k = "while" -> Tok("While")
          [] k = "for" -> Tok("For") [] k = "in" -> Tok("In")
          [] k = "match" -> Tok("Match") [] k = "return" -> Tok("Return")
          [] k = "self" -> Tok("Self_") [] k = "use" -> Tok("Use")
          [] k = "mod" -> Tok("Mod") [] k = "pub" -> Tok("Pub")
          [] k = "super" -> Tok("Super") [] k = "crate" -> Tok("Crate")
          [] k = "true" -> BoolLiteral(TRUE) [] k = "false" -> BoolLiteral(FALSE)
          [] k = "_" -> Tok("Underscore")]

\* A variant of ident_token that knows no wildcard token.
ident_token_no_wildcard(ident) ==
    IF ident \in DOMAIN Keywords /\ ident # "_" THEN Keywords[ident] ELSE Ident(ident)

\* next_token: the token of an identifier text.
ident_token(ident) ==
    IF ident \in DOMAIN Keywords THEN Keywords[ident] ELSE Ident(ident)

\* The position after the run of hexadecimal digits that starts at pos.
RECURSIVE hex_end(_, _)
hex_end(input, pos) ==
    IF current(input, pos) # None /\ is_ascii_hexdigit(current(input, pos)[1])
    THEN hex_end(input, pos + 1)
    ELSE pos

\* A variant of parse_i32 that saturates at the largest i32 instead of
\* failing.
RECURSIVE parse_i32_saturating(_, _, _, _, _)
parse_i32_saturating(input, from, to, radix, acc) ==
    IF from >= to THEN Some(acc)
    ELSE LET d == to_digit(input[from + 1]) IN
         IF acc > (I32Max - d) \div radix THEN Some(I32Max)
         ELSE parse_i32_saturating(input, from + 1, to, radix, acc * radix + d)

\* i32::from_str_radix and str::parse::<i32> on the digits input[from+1..to],
\* value so far acc: None when the value does not fit an i32.
RECURSIVE parse_i32(_, _, _, _, _)
parse_i32(input, from, to, radix, acc) ==
    IF from >= to THEN Some(acc)
    ELSE LET d == to_digit(input[from + 1]) IN
         IF acc > (I32Max - d) \div radix THEN None
         ELSE parse_i32(input, from + 1, to, radix, acc * radix + d)

\* A variant of read_decimal that consumes a `.` whatever follows it.
RECURSIVE read_decimal_any_dot(_, _, _, _)
read_decimal_any_dot(input, pos, is_float, dot) ==
    IF current(input, pos) = None
    THEN [pos |-> pos, is_float |-> is_float, dot |-> dot]
    ELSE LET ch == current(input, pos)[1] IN
         IF is_ascii_digit(ch) THEN read_decimal_any_dot(input, pos + 1, is_float, dot)
         ELSE IF ch = "." /\ ~is_float
              THEN read_decimal_any_dot(input, pos + 1, TRUE, pos)
              ELSE [pos |-> pos, is_float |-> is_float, dot |-> dot]

\* read_number, the decimal loop: the position after the number, whether a
\* `.` was consumed, and where.
RECURSIVE read_decimal(_, _, _, _)
read_decimal(input, pos, is_float, dot) ==
    IF current(input, pos) = None
    THEN [pos |-> pos, is_float |-> is_float, dot |-> dot]
    ELSE LET ch == current(input, pos)[1] IN
         IF is_ascii_digit(ch) THEN read_decimal(input, pos + 1, is_float, dot)
         ELSE IF /\ ch = "." /\ ~is_float
                 /\ peek(input, pos) # None /\ is_ascii_digit(peek(input, pos)[1])
              THEN read_decimal(input, pos + 1, TRUE, pos)
              ELSE [pos |-> pos, is_float |-> is_float, dot |-> dot]

RECURSIVE strip_leading_zeros(_)
strip_leading_zeros(ds) ==
    IF Len(ds) > 1 /\ ds[1] = "0" THEN strip_leading_zeros(Tail(ds)) ELSE ds

RECURSIVE strip_trailing_zeros(_)
strip_trailing_zeros(ds) ==
    IF Len(ds) > 1 /\ ds[Len(ds)] = "0" THEN strip_trailing_zeros(Front(ds)) ELSE ds

\* str::parse::<f32> of digits `.` digits: the value, as its whole and
\* fractional digits without the zeros that do not change it.
parse_f32(input, from, dot, to) ==
    FloatLiteral(strip_leading_zeros(SubSeq(input, from + 1, dot)),
                 strip_trailing_zeros(SubSeq(input, dot + 2, to)))

\* What a lexer routine returns: the token, where it starts and the
\* position after it.
Lexed(token, start, pos) == Ok([token |-> token, start |-> start, pos |-> pos])

read_number(input, pos) ==
    IF current(input, pos) = Some("0") /\ peek(input, pos) = Some("x")
    THEN LET end == hex_end(input, pos + 2)
             value == parse_i32(input, pos + 2, end, 16, 0)
         IN IF end = pos + 2 \/ value = None
            THEN Err("InvalidNumber", [pos |-> pos])
            ELSE Lexed(IntLiteral(value[1]), pos, end)
    ELSE LET num == read_decimal(input, pos, FALSE, 0) IN
         IF num.is_float
         THEN Lexed(parse_f32(input, pos, num.dot, num.pos), pos, num.pos)
         ELSE LET value == parse_i32(input, pos, num.pos, 10, 0) IN
              IF value = None
              THEN Err("InvalidNumber", [pos |-> pos])
              ELSE Lexed(IntLiteral(value[1]), pos, num.pos)

\* The character an escape pushes in read_string: none for an unknown
\* escape and at the end of input.
string_escape(c) ==
    IF c = Some("n") THEN "\n"
    ELSE IF c = Some("t") THEN "\t"
    ELSE IF c = Some("r") THEN "\r"
    ELSE IF c = Some("\\") THEN "\\"
    ELSE IF c = Some("\"") THEN "\""
    ELSE ""

\* A variant of read_string_body in which a quote ends the literal also
\* right after a backslash.
RECURSIVE read_string_body_quote_ends(_, _, _, _)
read_string_body_quote_ends(input, pos, string, start_pos) ==
    IF current(input, pos) = None THEN Err("UnterminatedString", [pos |-> start_pos])
    ELSE LET ch == current(input, pos)[1] IN
         IF ch = "\"" THEN Lexed(StringLiteral(string), start_pos, pos + 1)
         ELSE IF ch = "\\"
              THEN read_string_body_quote_ends(input, pos + 1, string, start_pos)
              ELSE read_string_body_quote_ends(input, pos + 1, string \o ch, start_pos)

\* read_string, the loop.
RECURSIVE read_string_body(_, _, _, _)
read_string_body(input, pos, string, start_pos) ==
    IF current(input, pos) = None THEN Err("UnterminatedString", [pos |-> start_pos])
    ELSE LET ch == current(input, pos)[1] IN
         IF ch = "\"" THEN Lexed(StringLiteral(string), start_pos, pos + 1)
         ELSE IF ch = "\\"
              THEN read_string_body(input, pos + 2,
                                    string \o string_escape(current(input, pos + 1)),
                                    start_pos)
              ELSE read_string_body(input, pos + 1, string \o ch, start_pos)

read_string(input, pos) == read_string_body(input, pos + 1, "", pos)

\* '\0'
NUL == "U+0000"

\* The character an escape stands for in read_char.
char_escape(c) ==
    IF c = "n" THEN "\n"
    ELSE IF c = "t" THEN "\t"
    ELSE IF c = "r" THEN "\r"
    ELSE c

\* A variant of read_char_close that does not ask for the closing quote.
read_char_close_unchecked(input, ch, last, start_pos) ==
    Lexed(CharLiteral(ch), start_pos, last + 1)

\* read_char from the closing quote on: last is the position of the last
\* character of the literal's content.
read_char_close(input, ch, last, start_pos) ==
    IF current(input, last + 1) # Some("'")
    THEN Err("UnexpectedChar",
             [ch |-> IF current(input, last + 1) = None THEN NUL
                     ELSE current(input, last + 1)[1],
              pos |-> last + 1])
    ELSE Lexed(CharLiteral(ch), start_pos, last + 2)

read_char(input, pos) ==
    LET c1 == current(input, pos + 1)
        c2 == current(input, pos + 2)
    IN IF c1 = None THEN Err("UnexpectedChar", [ch |-> NUL, pos |-> pos])
       ELSE IF c1 = Some("\\")
            THEN IF c2 = None THEN Err("UnexpectedChar", [ch |-> NUL, pos |-> pos])
                 ELSE read_char_close(input, char_escape(c2[1]), pos + 2, pos)
            ELSE read_char_close(input, c1[1], pos + 1, pos)

\* next_token: the tokens of one character.
OneCharTokens ==
    [c \in {"(", ")", "{", "}", "[", "]", ";", ",", ".", ":", "+", "-", "*", "/",
            "%", "&", "|", "^", "~", "!", "=", "<", ">"} |->
        CASE c = "(" -> Tok("LeftParen") [] c = ")" -> Tok("RightParen")
          [] c = "{" -> Tok("LeftBrace") [] c = "}" -> Tok("RightBrace")
          [] c = "[" -> Tok("LeftBracket") [] c = "]" -> Tok("RightBracket")
          [] c = ";" -> Tok("Semicolon") [] c = "," -> Tok("Comma")
          [] c = "." -> Tok("Dot") [] c = ":" -> Tok("Colon")
          [] c = "+" -> Tok("Plus") [] c = "-" -> Tok("Minus")
          [] c = "*" -> Tok("Star") [] c = "/" -> Tok("Slash")
          [] c = "%" -> Tok("Percent") [] c = "&" -> Tok("Ampersand")
          [] c = "|" -> Tok("Pipe") [] c = "^" -> Tok("Caret")
          [] c = "~" -> Tok("Tilde") [] c = "!" -> Tok("Bang")
          [] c = "=" -> Tok("Eq") [] c = "<" -> Tok("Lt") [] c = ">" -> Tok("Gt")]

\* A variant of TwoCharTokens without the fat arrow.
TwoCharTokens_no_fat_arrow ==
    [p \in {<<".", ".">>, <<":", ":">>, <<"-", ">">>, <<"&", "&">>, <<"|", "|">>,
            <<"!", "=">>, <<"=", "=">>, <<"<", "=">>, <<"<", "<">>,
            <<">", "=">>, <<">", ">">>} |->
        CASE p = <<".", ".">> -> Tok("DotDot") [] p = <<":", ":">> -> Tok("ColonColon")
          [] p = <<"-", ">">> -> Tok("Arrow") [] p = <<"&", "&">> -> Tok("AndAnd")
          [] p = <<"|", "|">> -> Tok("OrOr") [] p = <<"!", "=">> -> Tok("Ne")
          [] p = <<"=", "=">> -> Tok("EqEq")
          [] p = <<"<", "=">> -> Tok("Le") [] p = <<"<", "<">> -> Tok("Shl")
          [] p = <<">", "=">> -> Tok("Ge") [] p = <<">", ">">> -> Tok("Shr")]

\* next_token: the tokens of two characters, by the first character's arm
\* and the character it looks at after its advance.
TwoCharTokens ==
    [p \in {<<".", ".">>, <<":", ":">>, <<"-", ">">>, <<"&", "&">>, <<"|", "|">>,
            <<"!", "=">>, <<"=", "=">>, <<"=", ">">>, <<"<", "=">>, <<"<", "<">>,
            <<">", "=">>, <<">", ">">>} |->
        CASE p = <<".", ".">> -> Tok("DotDot") [] p = <<":", ":">> -> Tok("ColonColon")
          [] p = <<"-", ">">> -> Tok("Arrow") [] p = <<"&", "&">> -> Tok("AndAnd")
          [] p = <<"|", "|">> -> Tok("OrOr") [] p = <<"!", "=">> -> Tok("Ne")
          [] p = <<"=", "=">> -> Tok("EqEq") [] p = <<"=", ">">> -> Tok("FatArrow")
          [] p = <<"<", "=">> -> Tok("Le") [] p = <<"<", "<">> -> Tok("Shl")
          [] p = <<">", "=">> -> Tok("Ge") [] p = <<">", ">">> -> Tok("Shr")]

\* A variant of read_operator that returns a one-character token without
\* advancing past it.
read_operator_no_advance(input, pos) ==
    LET ch == current(input, pos)[1]
        next == current(input, pos + 1)
    IN IF next # None /\ <<ch, next[1]>> \in DOMAIN TwoCharTokens
       THEN Lexed(TwoCharTokens[<<ch, next[1]>>], pos, pos + 2)
       ELSE IF ch \in DOMAIN OneCharTokens
            THEN Lexed(OneCharTokens[ch], pos, pos)
            ELSE Err("UnexpectedChar", [ch |-> ch, pos |-> pos])

\* next_token, the arms of the punctuation and operator characters.
read_operator(input, pos) ==
    LET ch == current(input, pos)[1]
        next == current(input, pos + 1)
    IN IF next # None /\ <<ch, next[1]>> \in DOMAIN TwoCharTokens
       THEN Lexed(TwoCharTokens[<<ch, next[1]>>], pos, pos + 2)
       ELSE IF ch \in DOMAIN OneCharTokens
            THEN Lexed(OneCharTokens[ch], pos, pos + 1)
            ELSE Err("UnexpectedChar", [ch |-> ch, pos |-> pos])

next_token(input, position) ==
    LET pos == skip_whitespace(input, position) IN
    IF current(input, pos) = None THEN Lexed(Eof, pos, pos)
    ELSE LET ch == current(input, pos)[1] IN
         IF is_alphabetic(ch) \/ ch = "_"
         THEN LET id == read_ident(input, pos, "") IN
              Lexed(ident_token(id.ident), pos, id.pos)
         ELSE IF is_ascii_digit(ch) THEN read_number(input, pos)
         ELSE IF ch = "\"" THEN read_string(input, pos)
         ELSE IF ch = "'" THEN read_char(input, pos)
         ELSE read_operator(input, pos)

\* A variant of push that drops the end-of-input marker.
push_no_eof(tokens, token) == IF token = Eof THEN tokens ELSE Append(tokens, token)

\* Vec::push
push(tokens, token) == Append(tokens, token)

\* tokenize, from position pos on with the tokens pushed so far.
RECURSIVE tokenize_from(_, _, _)
tokenize_from(input, pos, tokens) ==
    LET r == next_token(input, pos) IN
    IF r.tag = "Err" THEN r
    ELSE IF r.val.token = Eof THEN Ok(push(tokens, r.val.token))
    ELSE tokenize_from(input, r.val.pos, push(tokens, r.val.token))

tokenize(input) == tokenize_from(input, 0, <<>>)

(***************************************************************************)
(* tokenize, one step per round of its loop, on every text of up to        *)
(* MaxInput characters over one of the alphabets below, on the texts of    *)
(* the keyword table and on a few longer texts.                            *)
(***************************************************************************)
\* The alphabets: of positions and multi-byte letters, of numbers, of
\* hexadecimal literals, of operators, of string literals, of character
\* literals and of identifiers.
LexAlphabets ==
    {{"U+00E9", "@", "a", "\"", " "},
     {"1", "2", ".", "a"},
     {"0", "x", "F", "f", "2", "g"},
     {":", ".", "-", ">", "=", "<", "&", "|", "!"},
     {"\"", "\\", "a", "n"},
     {"'", "\\", "a", "b"},
     {"a", "s", "i", "n", "_", "1"}}

KeywordTexts ==
    {<<"a", "s">>, <<"s", "t", "r", "u", "c", "t">>, <<"e", "n", "u", "m">>,
     <<"t", "r", "a", "i", "t">>, <<"i", "m", "p", "l">>, <<"f", "n">>,
     <<"l", "e", "t">>, <<"c", "o", "n", "s", "t">>, <<"m", "u", "t">>,
     <<"i", "f">>, <<"e", "l", "s", "e">>, <<"w", "h", "i", "l", "e">>,
     <<"f", "o", "r">>, <<"i", "n">>, <<"m", "a", "t", "c", "h">>,
     <<"r", "e", "t", "u", "r", "n">>, <<"s", "e", "l", "f">>,
     <<"u", "s", "e">>, <<"m", "o", "d">>, <<"p", "u", "b">>,
     <<"s", "u", "p", "e", "r">>, <<"c", "r", "a", "t", "e">>,
     <<"t", "r", "u", "e">>, <<"f", "a", "l", "s", "e">>, <<"_">>}

LexSamples ==
    {<<"/", "/", "U+00E9", "\n", "@">>,
     <<"2", "1", "4", "7", "4", "8", "3", "6", "4", "7">>,
     <<"2", "1", "4", "7", "4", "8", "3", "6", "4", "8">>,
     <<"0", "x", "7", "F", "F", "F", "F", "F", "F", "F">>,
     <<"0", "x", "8", "0", "0", "0", "0", "0", "0", "0">>,
     <<" ", "2", "1", "4", "7", "4", "8", "3", "6", "4", "8">>,
     <<" ", " ", "0", "x", "F", "F", "F", "F", "F", "F", "F", "F">>,
     <<"0", "x", "0", "7", "f", "f", "f", "f", "f", "f", "f">>,
     <<"3", "0", "0", "0", "0", "0", "0", "0", "0", "0">>,
     <<"0", "0", "2", "1", "4", "7", "4", "8", "3", "6", "4", "7">>,
     <<"1", "0", "0", "0", "0", "0", "0", "0", "0", "0", "0">>,
     <<"1", "0", ".", "5", "0">>,
     <<"a", " ", "/", " ", "b">>}

LexInputs ==
    UNION {UNION {[1..n -> A] : n \in 0..MaxInput} : A \in LexAlphabets}
      \cup KeywordTexts \cup LexSamples

\* Lexer::new and the empty token vector of tokenize; starts and ends keep,
\* for each token pushed, where next_token found it.
LexerNew(input) ==
    [pc |-> "lexing", input |-> input, position |-> 0, tokens |-> <<>>,
     starts |-> <<>>, ends |-> <<>>, result |-> None]

InitLex ==
    /\ \E input \in LexInputs : lex = LexerNew(input)
    /\ fs = <<>> /\ base_path = <<>>
    /\ IdleLoader /\ IdleResolve /\ IdleFilter /\ IdleCli /\ IdleParse /\ IdleSyn

\* One round of the loop of tokenize.
TokenizeStep ==
    /\ lex.pc = "lexing"
    /\ LET r == next_token(lex.input, lex.position) IN
       lex' = IF r.tag = "Err"
              THEN [lex EXCEPT !.pc = "done", !.result = Some(r)]
              ELSE LET pushed == [lex EXCEPT !.tokens = push(@, r.val.token),
                                             !.starts = Append(@, r.val.start),
                                             !.ends = Append(@, r.val.pos),
                                             !.position = r.val.pos]
                   IN IF r.val.token = Eof
                      THEN [pushed EXCEPT !.pc = "done",
                                          !.result = Some(Ok(pushed.tokens))]
                      ELSE pushed
    /\ UNCHANGED <<fs, base_path, pc, loaderVars, resolveVars, filterVars, cli, prs, syn>>

NextLex == TokenizeStep

SpecLex == InitLex /\ [][NextLex]_vars

\* tokenize has returned / has returned a token list.
LexDone == lex.pc = "done"
LexOk == lex.pc = "done" /\ lex.result[1].tag = "Ok"
LexErr(kind) ==
    lex.pc = "done" /\ lex.result[1].tag = "Err" /\ lex.result[1].kind = kind

\* The loop of tokenize returns what the function tokenize computes.
StepsAgreeWithTokenize == LexDone => lex.result[1] = tokenize(lex.input)

(***************************************************************************)
(* Properties of tokenize.                                                 *)
(***************************************************************************)
\* C12: a token list that tokenize returns is not empty, ends with Eof and
\* holds Eof nowhere else.
C12_EndsWithOneEof ==
    LexOk =>
        LET tokens == lex.result[1].val IN
        /\ tokens # <<>>
        /\ Last(tokens) = Eof
        /\ \A i \in 1..(Len(tokens) - 1) : tokens[i] # Eof

\* C12's case: tokenize has returned a list of several tokens.
C12_Witness == LexOk /\ Len(lex.result[1].val) >= 3

\* The bytes of the characters before position pos: the byte offset of the
\* character at position pos in the UTF-8 text.
RECURSIVE byte_offset(_, _)
byte_offset(input, pos) ==
    IF pos = 0 THEN 0 ELSE byte_offset(input, pos - 1) + len_utf8(input[pos])

\* C13: the position of an UnexpectedChar error is the byte offset of an
\* occurrence of the reported character in the source text.
C13_PositionIsByteOffset ==
    (LexErr("UnexpectedChar") /\ lex.result[1].val.ch # NUL) =>
        \E k \in 0..(Len(lex.input) - 1) :
            /\ lex.input[k + 1] = lex.result[1].val.ch
            /\ byte_offset(lex.input, k) = lex.result[1].val.pos

\* A non-empty run of decimal digits, and the number it writes.
IsDigits(text) == text # <<>> /\ \A i \in 1..Len(text) : text[i] \in Digits

RECURSIVE DecValue(_)
DecValue(text) ==
    IF text = <<>> THEN 0 ELSE DecValue(Front(text)) * 10 + to_digit(Last(text))

\* The text is a..b for digit runs a and b, the first one i digits long.
IsRange(text, i) ==
    /\ i >= 1 /\ i + 3 <= Len(text)
    /\ IsDigits(SubSeq(text, 1, i))
    /\ text[i + 1] = "." /\ text[i + 2] = "."
    /\ IsDigits(SubSeq(text, i + 3, Len(text)))

\* The positions of the dots in the text of the k-th token.
DotsOf(k) == {p \in (lex.starts[k] + 1)..lex.ends[k] : lex.input[p] = "."}

\* C14: a..b lexes as int, dot-dot, int; a number token holds a dot only
\* when a digit follows the dot, and holds one dot at most.
C14_RangeNeverFloat ==
    /\ \A i \in 1..Len(lex.input) :
          (LexDone /\ IsRange(lex.input, i)) =>
              lex.result[1] =
                  Ok(<<IntLiteral(DecValue(SubSeq(lex.input, 1, i))),
                       Tok("DotDot"),
                       IntLiteral(DecValue(SubSeq(lex.input, i + 3, Len(lex.input)))),
                       Eof>>)
    /\ lex.pc # "idle" =>
          \A k \in 1..Len(lex.tokens) :
              /\ lex.tokens[k].tag = "IntLiteral" => DotsOf(k) = {}
              /\ lex.tokens[k].tag = "FloatLiteral" =>
                    /\ Cardinality(DotsOf(k)) = 1
                    /\ \A p \in DotsOf(k) :
                          p < lex.ends[k] /\ lex.input[p + 1] \in Digits

\* C14's case: a range of two integer literals has been tokenized.
C14_Witness ==
    LexOk /\ \E i \in 1..Len(lex.input) : IsRange(lex.input, i)

\* The hexadecimal digits, of either case.
HexDigits == Digits \cup {"a", "b", "c", "d", "e", "f", "F"}

\* The text is 0x followed by hexadecimal digits whose value fits an i32.
IsHexLiteral(text) ==
    /\ Len(text) >= 3 /\ text[1] = "0" /\ text[2] = "x"
    /\ \A i \in 3..Len(text) : text[i] \in HexDigits
    /\ \/ Len(text) <= 9
       \/ Len(text) = 10 /\ text[3] \in {"0", "1", "2", "3", "4", "5", "6", "7"}

RECURSIVE HexValue(_)
HexValue(text) ==
    IF text = <<>> THEN 0 ELSE HexValue(Front(text)) * 16 + to_digit(Last(text))

\* The decimal literal of the value n.
RECURSIVE ToDecimal(_)
ToDecimal(n) ==
    LET d == CHOOSE c \in Digits : to_digit(c) = n % 10 IN
    IF n < 10 THEN <<d>> ELSE Append(ToDecimal(n \div 10), d)

\* C15: a hexadecimal literal gives the token list of the decimal literal
\* of its value, and 0x without a hexadecimal digit is an invalid number.
C15_HexEqualsDecimal ==
    LexDone =>
        /\ IsHexLiteral(lex.input) =>
              LET value == HexValue(SubSeq(lex.input, 3, Len(lex.input))) IN
              /\ lex.result[1] = Ok(<<IntLiteral(value), Eof>>)
              /\ lex.result[1] = tokenize(ToDecimal(value))
        /\ ( /\ Len(lex.input) >= 2 /\ lex.input[1] = "0" /\ lex.input[2] = "x"
             /\ (Len(lex.input) = 2 \/ lex.input[3] \notin HexDigits) ) =>
              /\ LexErr("InvalidNumber")
              /\ lex.result[1].val.pos = 0

\* C15's case: a literal with hexadecimal digits of both cases has been
\* tokenized.
C15_Witness ==
    /\ LexOk /\ IsHexLiteral(lex.input)
    /\ \E i, j \in 3..Len(lex.input) : lex.input[i] = "F" /\ lex.input[j] = "f"

\* The operators of two characters and the name of the token of each.
MunchPairs ==
    (<<":", ":">> :> "ColonColon") @@ (<<".", ".">> :> "DotDot")
      @@ (<<"-", ">">> :> "Arrow") @@ (<<"=", "=">> :> "EqEq")
      @@ (<<"=", ">">> :> "FatArrow") @@ (<<"<", "=">> :> "Le")
      @@ (<<"<", "<">> :> "Shl") @@ (<<">", "=">> :> "Ge")
      @@ (<<">", ">">> :> "Shr") @@ (<<"&", "&">> :> "AndAnd")
      @@ (<<"|", "|">> :> "OrOr") @@ (<<"!", "=">> :> "Ne")

\* The two characters at the start of the k-th token form an operator.
StartsWithPair(k) ==
    /\ lex.starts[k] + 2 <= Len(lex.input)
    /\ <<lex.input[lex.starts[k] + 1], lex.input[lex.starts[k] + 2]>>
          \in DOMAIN MunchPairs

\* C16: a token that starts where two characters form an operator is that
\* operator's token and takes both characters; the token of one character
\* is pushed only where the next character completes no operator.
C16_MaximalMunch ==
    lex.pc # "idle" =>
        \A k \in 1..Len(lex.tokens) :
            /\ StartsWithPair(k) =>
                  /\ lex.tokens[k] =
                        Tok(MunchPairs[<<lex.input[lex.starts[k] + 1],
                                         lex.input[lex.starts[k] + 2]>>])
                  /\ lex.ends[k] = lex.starts[k] + 2
            /\ ( /\ lex.tokens[k].tag \in {"Colon", "Dot", "Minus", "Eq", "Lt", "Gt",
                                           "Ampersand", "Pipe", "Bang"}
                 /\ lex.ends[k] = lex.starts[k] + 1 ) => ~StartsWithPair(k)

\* C16's case: `<<=>` has been tokenized as a shift and a fat arrow.
C16_Witness ==
    /\ LexOk
    /\ \E k \in 1..(Len(lex.tokens) - 1) :
          /\ lex.tokens[k] = Tok("Shl") /\ lex.tokens[k + 1] = Tok("FatArrow")
          /\ lex.starts[k + 1] = lex.ends[k]

\* The index in text of the quote that closes a string literal whose
\* content starts at index i: the first quote that no backslash escapes;
\* 0 when the text ends first.
RECURSIVE CloseOf(_, _)
CloseOf(text, i) ==
    IF i > Len(text) THEN 0
    ELSE IF text[i] = "\\" THEN CloseOf(text, i + 2)
    ELSE IF text[i] = "\"" THEN i
    ELSE CloseOf(text, i + 1)

\* The positions where next_token found a token or, when tokenize failed,
\* looked for one.
TokenStarts ==
    {lex.starts[k] : k \in 1..Len(lex.starts)}
      \cup (IF LexDone /\ lex.result[1].tag = "Err"
            THEN {skip_whitespace(lex.input, lex.position)} ELSE {})

\* C17: a string literal that the text ends in makes tokenize fail with
\* UnterminatedString, and a string token ends at the first quote that is
\* not escaped.
C17_UnterminatedString ==
    /\ LexDone =>
          \A s \in TokenStarts :
              ( /\ s < Len(lex.input) /\ lex.input[s + 1] = "\""
                /\ CloseOf(lex.input, s + 2) = 0 ) =>
                  LexErr("UnterminatedString") /\ lex.result[1].val.pos = s
    /\ lex.pc # "idle" =>
          \A k \in 1..Len(lex.tokens) :
              lex.tokens[k].tag = "StringLiteral" =>
                  lex.ends[k] = CloseOf(lex.input, lex.starts[k] + 2)

\* C17's case: the text ended right after an escaped quote inside a string
\* literal.
C17_Witness ==
    /\ LexErr("UnterminatedString")
    /\ Len(lex.input) >= 3
    /\ lex.input[Len(lex.input)] = "\""
    /\ lex.input[Len(lex.input) - 1] = "\\"
    /\ lex.input[Len(lex.input) - 2] # "\\"

\* The text holds, from position s on, a quote, one plain character and a
\* quote / a quote, a backslash, one character and a quote.
PlainCharLiteral(text, s) ==
    s + 3 <= Len(text) /\ text[s + 1] = "'" /\ text[s + 2] # "\\" /\ text[s + 3] = "'"
EscapedCharLiteral(text, s) ==
    s + 4 <= Len(text) /\ text[s + 1] = "'" /\ text[s + 2] = "\\" /\ text[s + 4] = "'"

\* C18: where a token starts with a single quote, tokenize gives a
\* CharLiteral when exactly one character or one escape stands between the
\* quote and a closing quote, with the character of a plain literal as its
\* value, and fails otherwise.
C18_CharLiteralOneChar ==
    /\ LexDone =>
          \A s \in TokenStarts :
              (s < Len(lex.input) /\ lex.input[s + 1] = "'") =>
                  IF PlainCharLiteral(lex.input, s) \/ EscapedCharLiteral(lex.input, s)
                  THEN \E k \in 1..Len(lex.tokens) :
                          /\ lex.starts[k] = s
                          /\ lex.tokens[k].tag = "CharLiteral"
                          /\ PlainCharLiteral(lex.input, s) =>
                                lex.tokens[k] = CharLiteral(lex.input[s + 2])
                  ELSE lex.result[1].tag = "Err"
    /\ lex.pc # "idle" =>
          \A k \in 1..Len(lex.tokens) :
              lex.tokens[k].tag = "CharLiteral" =>
                  \/ PlainCharLiteral(lex.input, lex.starts[k])
                        /\ lex.ends[k] = lex.starts[k] + 3
                  \/ EscapedCharLiteral(lex.input, lex.starts[k])
                        /\ lex.ends[k] = lex.starts[k] + 4

\* C18's case: tokenize has failed on a literal of two characters.
C18_Witness ==
    /\ LexDone /\ lex.result[1].tag = "Err"
    /\ lex.input = <<"'", "a", "b", "'">>

\* The text is a letter or an underscore followed by letters, digits and
\* underscores.
IsIdentText(text) ==
    /\ text # <<>>
    /\ text[1] \in Letters \cup {"_"}
    /\ \A i \in 1..Len(text) : text[i] \in Letters \cup Digits \cup {"_"}

\* The string of the characters of text.
RECURSIVE Join(_)
Join(text) == IF text = <<>> THEN "" ELSE text[1] \o Join(Tail(text))

\* The words of the keyword table that are neither a boolean literal nor
\* the wildcard.
KeywordNames == DOMAIN Keywords \ {"true", "false", "_"}

\* C19: an identifier text lexes as one Ident token that carries the whole
\* text, the bare underscore as the wildcard token, a keyword as its
\* keyword token, each followed by Eof only.
C19_OneIdentToken ==
    (LexDone /\ IsIdentText(lex.input)) =>
        LET word == Join(lex.input) IN
        IF word = "_" THEN lex.result[1] = Ok(<<Tok("Underscore"), Eof>>)
        ELSE IF word \in {"true", "false"}
             THEN lex.result[1] = Ok(<<BoolLiteral(word = "true"), Eof>>)
        ELSE IF word \in KeywordNames
             THEN /\ lex.result[1] = Ok(<<Keywords[word], Eof>>)
                  /\ Keywords[word].tag \notin {"Ident", "Underscore", "BoolLiteral"}
        ELSE lex.result[1] = Ok(<<Ident(word), Eof>>)

\* C19's case: an identifier with a digit and an underscore in it has been
\* tokenized.
C19_Witness ==
    /\ LexOk /\ IsIdentText(lex.input)
    /\ lex.tokens[1].tag = "Ident"
    /\ \E i, j \in 2..Len(lex.input) : lex.input[i] = "_" /\ lex.input[j] \in Digits

\* The digits, read as a number of the radix, write more than the largest
\* i32; decided on the digits, leading zeros aside.
RECURSIVE DigitsAbove(_, _)
DigitsAbove(ds, limit) ==
    IF Len(ds) > 1 /\ ds[1] = "0" THEN DigitsAbove(Tail(ds), limit)
    ELSE IF Len(ds) # Len(limit) THEN Len(ds) > Len(limit)
    ELSE \E i \in 1..Len(ds) :
            /\ to_digit(ds[i]) > to_digit(limit[i])
            /\ \A j \in 1..(i - 1) : ds[j] = limit[j] \/ to_digit(ds[j]) = to_digit(limit[j])

MaxDecimalDigits == <<"2", "1", "4", "7", "4", "8", "3", "6", "4", "7">>
MaxHexDigits == <<"7", "F", "F", "F", "F", "F", "F", "F">>

\* The input is k blanks followed by an integer literal and nothing else:
\* a run of decimal digits, or 0x and a run of hexadecimal digits.
IsDecimalAt(k) ==
    /\ \A i \in 1..k : lex.input[i] = " "
    /\ IsDigits(SubSeq(lex.input, k + 1, Len(lex.input)))
    /\ ~(Len(lex.input) >= k + 2 /\ lex.input[k + 2] = "x")

IsHexAt(k) ==
    /\ \A i \in 1..k : lex.input[i] = " "
    /\ Len(lex.input) >= k + 3
    /\ lex.input[k + 1] = "0" /\ lex.input[k + 2] = "x"
    /\ \A i \in (k + 3)..Len(lex.input) : lex.input[i] \in HexDigits

\* C28: an integer literal above 2147483647, decimal or hexadecimal, makes
\* tokenize fail with InvalidNumber at the position of the first character
\* of the literal; a literal up to that value gives IntLiteral of its value,
\* so 2147483647 and 0x7FFFFFFF both give IntLiteral(2147483647).
C28_IntLiteralsNeverWrap ==
    LexDone =>
        \A k \in 0..Len(lex.input) :
            /\ IsDecimalAt(k) =>
                  LET ds == SubSeq(lex.input, k + 1, Len(lex.input)) IN
                  IF DigitsAbove(ds, MaxDecimalDigits)
                  THEN LexErr("InvalidNumber") /\ lex.result[1].val.pos = k
                  ELSE lex.result[1] = Ok(<<IntLiteral(DecValue(ds)), Eof>>)
            /\ IsHexAt(k) =>
                  LET ds == SubSeq(lex.input, k + 3, Len(lex.input)) IN
                  IF DigitsAbove(ds, MaxHexDigits)
                  THEN LexErr("InvalidNumber") /\ lex.result[1].val.pos = k
                  ELSE lex.result[1] = Ok(<<IntLiteral(HexValue(ds)), Eof>>)

\* C28's case: a literal one above the largest i32, not at the start of
\* the input, has been rejected.
C28_Witness ==
    /\ LexErr("InvalidNumber")
    /\ lex.result[1].val.pos = 1
    /\ IsDecimalAt(1)
    /\ SubSeq(lex.input, 2, Len(lex.input)) =
          <<"2", "1", "4", "7", "4", "8", "3", "6", "4", "8">>

\* A call of next_token does not move the position back, and moves it
\* forward unless it returns Eof or an error.
NextTokenAdvances ==
    /\ lex'.position >= lex.position
    /\ Len(lex'.tokens) > Len(lex.tokens) =>
          \/ lex'.tokens[Len(lex'.tokens)] = Eof
          \/ lex'.position > lex.position

\* C29: tokenize terminates: the position never decreases and stays within
\* the input, every call of next_token returns Eof or an error or leaves
\* the position greater than it was, and so the loop makes at most one call
\* for each character and one more.
C29_TokenizeTerminates ==
    /\ [][NextTokenAdvances]_vars
    /\ [](lex.position <= Len(lex.input))
    /\ [](Len(lex.tokens) <= Len(lex.input) + 1)

\* C29's case: tokenize has returned after a call for every character of
\* an input of the greatest length.
C29_Witness ==
    /\ LexOk
    /\ Len(lex.input) >= MaxInput
    /\ Len(lex.tokens) = Len(lex.input) + 1

(***************************************************************************)
(* parse_program, one step per round of its two loops, on a token list     *)
(* seen as the chunks the loops consume: a use statement, an item, or      *)
(* tokens that start neither.  The chunk of a use statement holds the      *)
(* UseStatement it spells out and, in inner, the token the statement       *)
(* lacks when it is malformed.                                             *)
(***************************************************************************)
\* The most chunks of one token list.
MaxChunks == 4

ParseChunks ==
    {Chunk("Use", UseStatement(<<"a">>, Simple("A")), <<>>),
     Chunk("Use", UseStatement(<<"crate", "b">>, Glob), <<>>),
     Chunk("Use", UseStatement(<<"c">>, Simple("C")), <<"Semicolon">>),
     Chunk("Struct", NamedItem("Struct", "S", "s1"), <<>>),
     Chunk("Fn", NamedItem("Function", "f", "f1"), <<>>),
     Chunk("Pub", NamedItem("Function", "g", "g1"), <<>>),
     Chunk("Impl", ImplItem(None, TypePath("S"), "i1"), <<"Pub">>)}

ParseSources == UNION {[1..n -> ParseChunks] : n \in 0..MaxChunks}

\* parse_use_statement: the statement, or the token an expect misses.
parse_use_statement(chunk) ==
    IF chunk.inner = <<>> THEN Ok(chunk.item)
    ELSE Err("UnexpectedToken", <<chunk.inner[1], "Eof">>)

\* Parser::new and the two empty vectors of parse_program.
ParserNew(source) ==
    [pc |-> "uses", source |-> source, position |-> 0, imports |-> <<>>,
     items |-> <<>>, result |-> None]

\* Parser::current: the token the chunk in hand starts with.
current_token == IF prs.position < Len(prs.source)
                 THEN prs.source[prs.position + 1].lead ELSE "Eof"

InitParse ==
    /\ \E source \in ParseSources : prs = ParserNew(source)
    /\ fs = <<>> /\ base_path = <<>>
    /\ IdleLoader /\ IdleResolve /\ IdleFilter /\ IdleCli /\ IdleLex /\ IdleSyn

\* One round of the first loop of parse_program.
ParseUseStatement ==
    /\ prs.pc = "uses"
    /\ current_token = "Use"
    /\ LET r == parse_use_statement(prs.source[prs.position + 1]) IN
       prs' = IF r.tag = "Err"
              THEN [prs EXCEPT !.pc = "done", !.result = Some(r)]
              ELSE [prs EXCEPT !.imports = Append(@, r.val), !.position = @ + 1]
    /\ UNCHANGED <<fs, base_path, pc, loaderVars, resolveVars, filterVars, cli, lex, syn>>

\* One round of the second loop of parse_program; the first loop is over
\* once the token in hand is not `use`.
ParseItem ==
    /\ prs.pc \in {"uses", "items"}
    /\ current_token # "Eof"
    /\ prs.pc = "uses" => current_token # "Use"
    /\ LET r == parse_item(prs.source[prs.position + 1]) IN
       prs' = IF r.tag = "Err"
              THEN [prs EXCEPT !.pc = "done", !.result = Some(r)]
              ELSE [prs EXCEPT !.pc = "items", !.items = Append(@, r.val),
                               !.position = @ + 1]
    /\ UNCHANGED <<fs, base_path, pc, loaderVars, resolveVars, filterVars, cli, lex, syn>>

\* The return of parse_program at the end of input.
ParseReturn ==
    /\ prs.pc \in {"uses", "items"}
    /\ current_token = "Eof"
    /\ prs' = [prs EXCEPT !.pc = "done",
                          !.result = Some(Ok(Program(prs.imports, prs.items)))]
    /\ UNCHANGED <<fs, base_path, pc, loaderVars, resolveVars, filterVars, cli, lex, syn>>

NextParse ==
    \/ ParseUseStatement
    \/ ParseItem
    \/ ParseReturn

SpecParse == InitParse /\ [][NextParse]_vars

\* parse has returned.
ParseDone == prs.pc = "done"

\* The chunks of the source that start with `use` / that do not.
UseChunks == SelectSeq(prs.source, LAMBDA c : c.lead = "Use")
ItemChunks == SelectSeq(prs.source, LAMBDA c : c.lead # "Use")

\* The indexes of the use statements that come after an item.
LateUses ==
    {j \in 1..Len(prs.source) :
        /\ prs.source[j].lead = "Use"
        /\ \E i \in 1..(j - 1) : prs.source[i].lead # "Use"}

Parsed(val, p) == [tag |-> "Ok", val |-> val, p |-> p]
Failed(err, p) == [tag |-> "Err", err |-> err, p |-> p]

\* ParseError
UnexpectedToken(expected, found) ==
    [kind |-> "UnexpectedToken", expected |-> expected, found |-> found]
InvalidExpression == [kind |-> "InvalidExpression"]

\* Parser::new
Parser_new(tokens) == [tokens |-> tokens, position |-> 0, log |-> <<>>]

\* Parser::current and Parser::peek
current_of(p) ==
    IF p.position < Len(p.tokens) THEN p.tokens[p.position + 1] ELSE Eof
peek_of(p) ==
    IF p.position + 1 < Len(p.tokens) THEN p.tokens[p.position + 2] ELSE Eof

\* self.current() == &Token::<tag>, for a token without a payload.
current_is(p, tag) == current_of(p).tag = tag

\* The parser after an assignment of position `to`, made by an advance or
\* by a restore.
moved(p, ev, to) ==
    [p EXCEPT !.position = to,
              !.log = Append(@, [ev |-> ev, loop |-> "", from |-> p.position, to |-> to])]

\* Parser::advance
advance(p) ==
    moved(p, "advance", IF p.position < Len(p.tokens) THEN p.position + 1 ELSE p.position)

\* The parser after a round of the loop named loop that began at position
\* from.
round(p, loop, from) ==
    [p EXCEPT !.log = Append(@, [ev |-> "round", loop |-> loop, from |-> from,
                                  to |-> p.position])]

\* A variant of expect that reports the token after the current one.
expect_found_next(p, expected) ==
    IF current_of(p) = expected THEN Parsed(<<>>, advance(p))
    ELSE Failed(UnexpectedToken(expected.tag, peek_of(p)), p)

\* Parser::expect; the expected token is shown by its Debug text.
expect(p, expected) ==
    IF current_of(p) = expected THEN Parsed(<<>>, advance(p))
    ELSE Failed(UnexpectedToken(expected.tag, current_of(p)), p)

\* Parser::parse_ident
parse_ident(p) ==
    IF current_is(p, "Ident") THEN Parsed(current_of(p).name, advance(p))
    ELSE Failed(UnexpectedToken("identifier", current_of(p)), p)

\* Expr
Literal(kind, value) == [tag |-> "Literal", kind |-> kind, value |-> value]
ExprIdent(name) == [tag |-> "Ident", name |-> name]
Binary(op, left, right) == [tag |-> "Binary", op |-> op, left |-> left, right |-> right]
Unary(op, expr) == [tag |-> "Unary", op |-> op, expr |-> expr]
ExprRange(start, end) == [tag |-> "Range", start |-> start, end |-> end]
ExprStruct(name, fields) == [tag |-> "Struct", name |-> name, fields |-> fields]

\* A variant of BinaryLevels with the levels of equality and of bitwise-and
\* exchanged.
BinaryLevels_and_above_equality ==
    <<("OrOr" :> "Or"), ("AndAnd" :> "And"), ("Pipe" :> "BitOr"),
      ("Caret" :> "BitXor"),
      ("EqEq" :> "Eq") @@ ("Ne" :> "Ne"),
      ("Ampersand" :> "BitAnd"),
      ("Lt" :> "Lt") @@ ("Le" :> "Le") @@ ("Gt" :> "Gt") @@ ("Ge" :> "Ge"),
      ("Shl" :> "Shl") @@ ("Shr" :> "Shr"),
      ("Plus" :> "Add") @@ ("Minus" :> "Sub"),
      ("Star" :> "Mul") @@ ("Slash" :> "Div") @@ ("Percent" :> "Mod")>>

\* The binary levels, from parse_or_expr to parse_multiplicative_expr: the
\* tokens the loop of each level accepts and the operator of each.
BinaryLevels ==
    <<("OrOr" :> "Or"), ("AndAnd" :> "And"), ("Pipe" :> "BitOr"),
      ("Caret" :> "BitXor"), ("Ampersand" :> "BitAnd"),
      ("EqEq" :> "Eq") @@ ("Ne" :> "Ne"),
      ("Lt" :> "Lt") @@ ("Le" :> "Le") @@ ("Gt" :> "Gt") @@ ("Ge" :> "Ge"),
      ("Shl" :> "Shl") @@ ("Shr" :> "Shr"),
      ("Plus" :> "Add") @@ ("Minus" :> "Sub"),
      ("Star" :> "Mul") @@ ("Slash" :> "Div") @@ ("Percent" :> "Mod")>>

\* A variant of RangeEndStarts that lets a range end start with self.
RangeEndStarts_with_self == {"IntLiteral", "Ident", "LeftParen", "Self_"}

\* The tokens after `..` that make parse_primary_expr parse a range end.
RangeEndStarts == {"IntLiteral", "Ident", "LeftParen"}

\* A variant of is_struct_literal that looks at the token after `{` only.
is_struct_literal_any_ident(p) == current_is(p, "Ident")

\* parse_primary_expr, the lookahead of a parser placed after the `{`:
\* an identifier and then a colon.
is_struct_literal(p) == current_is(p, "Ident") /\ current_is(advance(p), "Colon")

\* The `?` of `let x = call?; rest`: the error of the call, returned at
\* once, or the rest of the method, run on what the call returned.
Then(r, rest(_)) == IF r.tag = "Err" THEN r ELSE rest(r)

RECURSIVE parse_type(_), parse_expr(_), parse_block(_), parse_statement(_),
          parse_pattern(_), parse_element(_, _), parse_list(_, _, _, _),
          parse_until(_, _, _, _), parse_binary_expr(_, _), binary_loop(_, _, _),
          binary_loops(_, _, _, _),
          parse_unary_expr(_), postfix_loop(_, _), parse_primary_expr(_),
          parse_if_statement(_), parse_match_statement(_), parse_function(_)

\* The loops `while current != close { push(element?); if current == Comma
\* { advance } else { break } }` of parse_args and of the lists of types,
\* fields, variants, generics, parameters, patterns and expressions.
parse_list(p, close, kind, acc) ==
    IF current_of(p) = close THEN Parsed(acc, p)
    ELSE Then(parse_element(p, kind), LAMBDA r :
         IF current_is(r.p, "Comma")
         THEN parse_list(round(advance(r.p), kind, p.position), close, kind,
                         Append(acc, r.val))
         ELSE Parsed(Append(acc, r.val), round(r.p, kind, p.position)))

\* The loops `while current != close { push(element?) }` of parse_program,
\* parse_block, parse_trait, parse_impl and parse_match_statement.
parse_until(p, close, kind, acc) ==
    IF current_of(p) = close THEN Parsed(acc, p)
    ELSE Then(parse_element(p, kind), LAMBDA r :
         parse_until(round(r.p, kind, p.position), close, kind, Append(acc, r.val)))

\* The parser after `if self.current() == &Token::<tag> { self.advance() }`.
skip(p, tag) == IF current_is(p, tag) THEN advance(p) ELSE p

\* Parser::parse_type
parse_type(p) ==
    IF current_is(p, "Ampersand")
    THEN Then(parse_type(skip(advance(p), "Mut")), LAMBDA inner :
         Parsed([tag |-> "Reference", inner |-> inner.val,
                 is_mut |-> current_is(advance(p), "Mut")], inner.p))
    ELSE IF current_is(p, "LeftParen")
    THEN Then(parse_list(advance(p), Tok("RightParen"), "type", <<>>), LAMBDA types :
         Then(expect(types.p, Tok("RightParen")), LAMBDA close :
         Parsed([tag |-> "Tuple", types |-> types.val], close.p)))
    ELSE IF current_is(p, "LeftBracket")
    THEN Then(parse_type(advance(p)), LAMBDA elem_type :
         Then(expect(elem_type.p, Tok("Semicolon")), LAMBDA semi :
         IF ~current_is(semi.p, "IntLiteral")
         THEN Failed(UnexpectedToken("array size", current_of(semi.p)), semi.p)
         ELSE Then(expect(advance(semi.p), Tok("RightBracket")), LAMBDA close :
              Parsed([tag |-> "Array", elem |-> elem_type.val,
                      size |-> current_of(semi.p).int], close.p))))
    ELSE Then(parse_ident(p), LAMBDA name :
         IF current_is(name.p, "Lt")
         THEN Then(parse_list(advance(name.p), Tok("Gt"), "type", <<>>), LAMBDA args :
              Then(expect(args.p, Tok("Gt")), LAMBDA close :
              Parsed(TypeGeneric(name.val, args.val), close.p)))
         ELSE Parsed(TypePath(name.val), name.p))

\* parse_params, the type of a parameter.
parse_param_type(p, name, is_self, is_mut) ==
    IF is_self /\ ~current_is(p, "Colon")
    THEN Parsed([name |-> name, ty |-> TypePath("Self"), is_self |-> is_self,
                 is_mut |-> is_mut], p)
    ELSE Then(expect(p, Tok("Colon")), LAMBDA colon :
         Then(parse_type(colon.p), LAMBDA ty :
         Parsed([name |-> name, ty |-> ty.val, is_self |-> is_self, is_mut |-> is_mut],
                ty.p)))

\* A variant of parse_param that takes `&self` for a mutable receiver.
parse_param_ref_is_mut(p) ==
    IF current_is(p, "Self_") THEN parse_param_type(advance(p), "self", TRUE, FALSE)
    ELSE IF current_is(p, "Ampersand")
    THEN Then(expect(skip(advance(p), "Mut"), Tok("Self_")), LAMBDA receiver :
         parse_param_type(receiver.p, "self", TRUE, TRUE))
    ELSE Then(parse_ident(skip(p, "Mut")), LAMBDA name :
         parse_param_type(name.p, name.val, FALSE, current_is(p, "Mut")))

\* parse_params, one round of the loop up to the push of the Param.
parse_param(p) ==
    IF current_is(p, "Self_") THEN parse_param_type(advance(p), "self", TRUE, FALSE)
    ELSE IF current_is(p, "Ampersand")
    THEN Then(expect(skip(advance(p), "Mut"), Tok("Self_")), LAMBDA receiver :
         parse_param_type(receiver.p, "self", TRUE, current_is(advance(p), "Mut")))
    ELSE Then(parse_ident(skip(p, "Mut")), LAMBDA name :
         parse_param_type(name.p, name.val, FALSE, current_is(p, "Mut")))

\* Parser::parse_params
parse_params(p) == parse_list(p, Tok("RightParen"), "parameter", <<>>)

\* Parser::parse_generics
parse_generics(p) ==
    IF ~current_is(p, "Lt") THEN Parsed(<<>>, p)
    ELSE Then(parse_list(advance(p), Tok("Gt"), "generic", <<>>), LAMBDA generics :
         Then(expect(generics.p, Tok("Gt")), LAMBDA close :
         Parsed(generics.val, close.p)))

\* Parser::parse_expr
parse_expr(p) == parse_binary_expr(p, 1)

\* parse_or_expr .. parse_multiplicative_expr: the method of the level. Each
\* method starts by calling the next one, so the first code to run is
\* parse_unary_expr, and the loops then run from the innermost level outwards
\* as the calls return.
parse_binary_expr(p, level) ==
    Then(parse_unary_expr(p), LAMBDA operand :
    binary_loops(operand.p, Len(BinaryLevels), level, operand.val))

\* The loops of the methods of the levels from inner out to outer; an error
\* in one is returned through every `?` outside it.
binary_loops(p, inner, outer, left) ==
    IF inner < outer THEN Parsed(left, p)
    ELSE Then(binary_loop(p, inner, left), LAMBDA done :
         binary_loops(done.p, inner - 1, outer, done.val))

\* The loop of the method of a binary level.
binary_loop(p, level, left) ==
    IF current_of(p).tag \notin DOMAIN BinaryLevels[level] THEN Parsed(left, p)
    ELSE Then(parse_binary_expr(advance(p), level + 1), LAMBDA right :
         binary_loop(right.p, level,
                     Binary(BinaryLevels[level][current_of(p).tag], left, right.val)))

\* Parser::parse_args
parse_args(p) == parse_list(p, Tok("RightParen"), "argument", <<>>)

\* Parser::parse_postfix_expr
parse_postfix_expr(p) ==
    Then(parse_primary_expr(p), LAMBDA expr : postfix_loop(expr.p, expr.val))

\* Parser::parse_unary_expr
parse_unary_expr(p) ==
    IF current_of(p).tag \in {"Bang", "Minus", "Ampersand"}
    THEN Then(parse_unary_expr(advance(p)), LAMBDA expr :
         IF current_is(p, "Ampersand") THEN expr
         ELSE Parsed(Unary(IF current_is(p, "Bang") THEN "Not" ELSE "Neg", expr.val),
                     expr.p))
    ELSE parse_postfix_expr(p)

\* parse_postfix_expr, the loop after the primary expression.
postfix_loop(p, expr) ==
    IF current_is(p, "Dot")
    THEN IF peek_of(advance(p)) = Tok("LeftParen")
         THEN Then(parse_ident(advance(p)), LAMBDA method :
              Then(expect(method.p, Tok("LeftParen")), LAMBDA open :
              Then(parse_args(open.p), LAMBDA args :
              Then(expect(args.p, Tok("RightParen")), LAMBDA close :
              postfix_loop(close.p, [tag |-> "MethodCall", expr |-> expr,
                                     method |-> method.val, args |-> args.val])))))
         ELSE Then(parse_ident(advance(p)), LAMBDA field :
              postfix_loop(field.p, [tag |-> "Field", expr |-> expr, field |-> field.val]))
    ELSE IF current_is(p, "LeftBracket")
    THEN Then(parse_expr(advance(p)), LAMBDA index :
         Then(expect(index.p, Tok("RightBracket")), LAMBDA close :
         postfix_loop(close.p, [tag |-> "Index", expr |-> expr, index |-> index.val])))
    ELSE IF current_is(p, "LeftParen")
    THEN Then(parse_args(advance(p)), LAMBDA args :
         Then(expect(args.p, Tok("RightParen")), LAMBDA close :
         postfix_loop(close.p, [tag |-> "Call", expr |-> expr, args |-> args.val])))
    ELSE IF current_is(p, "As")
    THEN Then(parse_type(advance(p)), LAMBDA target_type :
         postfix_loop(target_type.p, expr))
    ELSE Parsed(expr, p)

\* parse_primary_expr after a `..`: the range from start, with an end when
\* the next token can start one.
parse_range(p, start) ==
    IF current_of(p).tag \in RangeEndStarts
    THEN Then(parse_expr(p), LAMBDA end :
         Parsed(ExprRange(start, Some(end.val)), end.p))
    ELSE Parsed(ExprRange(start, None), p)

\* The parser after the lookahead past a `{`, p being placed after the `{`:
\* past an identifier and back again.
looked_ahead(p) ==
    IF current_is(p, "Ident") THEN moved(advance(p), "restore", p.position) ELSE p

\* parse_primary_expr, an identifier followed by `{`, the parser placed at
\* the `{`: a struct literal, or the identifier alone with the position
\* back at the `{`.
parse_struct_literal(p, name) ==
    IF is_struct_literal(advance(p))
    THEN Then(parse_list(looked_ahead(advance(p)), Tok("RightBrace"), "field_value",
                         <<>>), LAMBDA fields :
         Then(expect(fields.p, Tok("RightBrace")), LAMBDA close :
         Parsed(ExprStruct(name, fields.val), close.p)))
    ELSE Parsed(ExprIdent(name), moved(looked_ahead(advance(p)), "restore", p.position))

\* parse_primary_expr, an identifier.
parse_ident_expr(p, name) ==
    IF name = "None" THEN Parsed([tag |-> "None"], p)
    ELSE IF name = "Some"
    THEN Then(expect(p, Tok("LeftParen")), LAMBDA open :
         Then(parse_expr(open.p), LAMBDA value :
         Then(expect(value.p, Tok("RightParen")), LAMBDA close :
         Parsed([tag |-> "Some", value |-> value.val], close.p))))
    ELSE IF current_is(p, "ColonColon")
    THEN Then(parse_ident(advance(p)), LAMBDA variant :
         Parsed(ExprIdent(name \o "::" \o variant.val), variant.p))
    ELSE IF current_is(p, "LeftBrace") THEN parse_struct_literal(p, name)
    ELSE IF current_is(p, "DotDot") THEN parse_range(advance(p), Some(ExprIdent(name)))
    ELSE Parsed(ExprIdent(name), p)

\* Parser::parse_primary_expr
parse_primary_expr(p) ==
    LET token == current_of(p) IN
    IF token.tag = "IntLiteral"
    THEN IF current_is(advance(p), "DotDot")
         THEN parse_range(advance(advance(p)), Some(Literal("Int", token.int)))
         ELSE Parsed(Literal("Int", token.int), advance(p))
    ELSE IF token.tag = "FloatLiteral"
    THEN Parsed(Literal("Float", <<token.whole, token.frac>>), advance(p))
    ELSE IF token.tag = "BoolLiteral"
    THEN Parsed(Literal("Bool", token.bool), advance(p))
    ELSE IF token.tag = "StringLiteral"
    THEN Parsed(Literal("String", token.string), advance(p))
    ELSE IF token.tag = "CharLiteral"
    THEN Parsed(Literal("Char", token.ch), advance(p))
    ELSE IF token.tag = "LeftParen"
    THEN Then(parse_list(advance(p), Tok("RightParen"), "tuple_element", <<>>),
              LAMBDA exprs :
         Then(expect(exprs.p, Tok("RightParen")), LAMBDA close :
         IF Len(exprs.val) = 1 THEN Parsed(exprs.val[1], close.p)
         ELSE Parsed([tag |-> "Tuple", exprs |-> exprs.val], close.p)))
    ELSE IF token.tag = "LeftBracket"
    THEN Then(parse_list(advance(p), Tok("RightBracket"), "array_element", <<>>),
              LAMBDA elements :
         Then(expect(elements.p, Tok("RightBracket")), LAMBDA close :
         Parsed([tag |-> "Array", elements |-> elements.val], close.p)))
    ELSE IF token.tag = "LeftBrace"
    THEN Then(parse_block(p), LAMBDA block :
         Parsed([tag |-> "Block", block |-> block.val], block.p))
    ELSE IF token.tag = "If"
    THEN Then(parse_if_statement(p), LAMBDA if_stmt :
         Parsed([tag |-> "If", stmt |-> if_stmt.val], if_stmt.p))
    ELSE IF token.tag = "Match"
    THEN Then(parse_match_statement(p), LAMBDA match_stmt :
         Parsed([tag |-> "Match", stmt |-> match_stmt.val], match_stmt.p))
    ELSE IF token.tag = "Self_" THEN Parsed(ExprIdent("self"), advance(p))
    ELSE IF token.tag = "Ident" THEN parse_ident_expr(advance(p), token.name)
    ELSE IF token.tag = "DotDot" THEN parse_range(advance(p), None)
    ELSE Failed(InvalidExpression, p)

\* Parser::parse_block
parse_block(p) ==
    Then(expect(p, Tok("LeftBrace")), LAMBDA open :
    Then(parse_until(open.p, Tok("RightBrace"), "statement", <<>>), LAMBDA statements :
    Then(expect(statements.p, Tok("RightBrace")), LAMBDA close :
    Parsed([statements |-> statements.val], close.p))))

\* `Some(call?)`: the result of the call, wrapped.
optional(r) == Then(r, LAMBDA x : Parsed(Some(x.val), x.p))

\* Parser::parse_let_statement
parse_let_statement(p) ==
    Then(expect(p, Tok("Let")), LAMBDA let :
    Then(parse_ident(skip(let.p, "Mut")), LAMBDA name :
    Then(IF current_is(name.p, "Colon") THEN optional(parse_type(advance(name.p)))
         ELSE Parsed(None, name.p), LAMBDA ty :
    Then(IF current_is(ty.p, "Eq") THEN optional(parse_expr(advance(ty.p)))
         ELSE Parsed(None, ty.p), LAMBDA value :
    Then(expect(value.p, Tok("Semicolon")), LAMBDA semi :
    Parsed([tag |-> "Let", name |-> name.val, ty |-> ty.val, value |-> value.val,
            is_mut |-> current_is(let.p, "Mut")], semi.p))))))

\* parse_if_statement, from the `else` on, if there is one; a following `if`
\* becomes a block of one statement.
parse_else_branch(p) ==
    IF ~current_is(p, "Else") THEN Parsed(None, p)
    ELSE IF current_is(advance(p), "If")
    THEN Then(parse_if_statement(advance(p)), LAMBDA if_stmt :
         Parsed(Some([statements |-> <<if_stmt.val>>]), if_stmt.p))
    ELSE optional(parse_block(advance(p)))

\* Parser::parse_if_statement
parse_if_statement(p) ==
    Then(expect(p, Tok("If")), LAMBDA if :
    Then(parse_expr(if.p), LAMBDA condition :
    Then(parse_block(condition.p), LAMBDA then_branch :
    Then(parse_else_branch(then_branch.p), LAMBDA else_branch :
    Parsed([tag |-> "If", condition |-> condition.val,
            then_branch |-> then_branch.val, else_branch |-> else_branch.val],
           else_branch.p)))))

\* Parser::parse_while_statement
parse_while_statement(p) ==
    Then(expect(p, Tok("While")), LAMBDA while :
    Then(parse_expr(while.p), LAMBDA condition :
    Then(parse_block(condition.p), LAMBDA body :
    Parsed([tag |-> "While", condition |-> condition.val, body |-> body.val],
           body.p))))

\* Parser::parse_for_statement
parse_for_statement(p) ==
    Then(expect(p, Tok("For")), LAMBDA for :
    Then(parse_ident(for.p), LAMBDA var :
    Then(expect(var.p, Tok("In")), LAMBDA in :
    Then(parse_expr(in.p), LAMBDA iter :
    Then(parse_block(iter.p), LAMBDA body :
    Parsed([tag |-> "For", var |-> var.val, iter |-> iter.val, body |-> body.val],
           body.p))))))

\* Parser::parse_match_statement
parse_match_statement(p) ==
    Then(expect(p, Tok("Match")), LAMBDA match :
    Then(parse_expr(match.p), LAMBDA expr :
    Then(expect(expr.p, Tok("LeftBrace")), LAMBDA open :
    Then(parse_until(open.p, Tok("RightBrace"), "match_arm", <<>>), LAMBDA arms :
    Then(expect(arms.p, Tok("RightBrace")), LAMBDA close :
    Parsed([tag |-> "Match", expr |-> expr.val, arms |-> arms.val], close.p))))))

\* parse_match_statement, one round of the loop over the arms.
parse_match_arm(p) ==
    Then(parse_pattern(p), LAMBDA pattern :
    Then(expect(pattern.p, Tok("FatArrow")), LAMBDA arrow :
    Then(parse_expr(arrow.p), LAMBDA body :
    Parsed([pattern |-> pattern.val, body |-> body.val], skip(body.p, "Comma")))))

\* Parser::parse_statement
parse_statement(p) ==
    IF current_is(p, "Let") THEN parse_let_statement(p)
    ELSE IF current_is(p, "Return")
    THEN Then(IF current_is(advance(p), "Semicolon") THEN Parsed(None, advance(p))
              ELSE optional(parse_expr(advance(p))), LAMBDA expr :
         Then(expect(expr.p, Tok("Semicolon")), LAMBDA semi :
         Parsed([tag |-> "Return", expr |-> expr.val], semi.p)))
    ELSE IF current_is(p, "If") THEN parse_if_statement(p)
    ELSE IF current_is(p, "While") THEN parse_while_statement(p)
    ELSE IF current_is(p, "For") THEN parse_for_statement(p)
    ELSE IF current_is(p, "Match") THEN parse_match_statement(p)
    ELSE Then(parse_expr(p), LAMBDA expr :
         IF current_is(expr.p, "Eq")
         THEN Then(parse_expr(advance(expr.p)), LAMBDA rhs :
              Parsed([tag |-> "Assign", lhs |-> expr.val, rhs |-> rhs.val],
                     skip(rhs.p, "Semicolon")))
         ELSE Parsed([tag |-> "Expr", expr |-> expr.val], skip(expr.p, "Semicolon")))

\* A pattern that is a literal.
PatternLiteral(kind, value) == [tag |-> "Literal", literal |-> Literal(kind, value)]

\* parse_pattern, an identifier.
parse_ident_pattern(p, name) ==
    IF current_is(p, "ColonColon")
    THEN Then(parse_ident(advance(p)), LAMBDA variant :
         IF ~current_is(variant.p, "LeftParen")
         THEN Parsed([tag |-> "Enum", name |-> name, variant |-> variant.val,
                      inner |-> None], variant.p)
         ELSE Then(parse_pattern(advance(variant.p)), LAMBDA inner :
              Then(expect(inner.p, Tok("RightParen")), LAMBDA close :
              Parsed([tag |-> "Enum", name |-> name, variant |-> variant.val,
                      inner |-> Some(inner.val)], close.p))))
    ELSE IF current_is(p, "LeftBrace")
    THEN Then(parse_list(advance(p), Tok("RightBrace"), "field_pattern", <<>>),
              LAMBDA fields :
         Then(expect(fields.p, Tok("RightBrace")), LAMBDA close :
         Parsed([tag |-> "Struct", name |-> name, fields |-> fields.val], close.p)))
    ELSE Parsed([tag |-> "Ident", name |-> name], p)

\* Parser::parse_pattern
parse_pattern(p) ==
    LET token == current_of(p) IN
    IF token.tag = "Underscore" THEN Parsed([tag |-> "Wildcard"], advance(p))
    ELSE IF token.tag = "IntLiteral"
    THEN Parsed(PatternLiteral("Int", token.int), advance(p))
    ELSE IF token.tag = "FloatLiteral"
    THEN Parsed(PatternLiteral("Float", <<token.whole, token.frac>>), advance(p))
    ELSE IF token.tag = "BoolLiteral"
    THEN Parsed(PatternLiteral("Bool", token.bool), advance(p))
    ELSE IF token.tag = "StringLiteral"
    THEN Parsed(PatternLiteral("String", token.string), advance(p))
    ELSE IF token.tag = "CharLiteral"
    THEN Parsed(PatternLiteral("Char", token.ch), advance(p))
    ELSE IF token.tag = "LeftParen"
    THEN Then(parse_list(advance(p), Tok("RightParen"), "pattern", <<>>),
              LAMBDA patterns :
         Then(expect(patterns.p, Tok("RightParen")), LAMBDA close :
         Parsed([tag |-> "Tuple", patterns |-> patterns.val], close.p)))
    ELSE IF token.tag = "Ident" THEN parse_ident_pattern(advance(p), token.name)
    ELSE Failed(UnexpectedToken("pattern", token), p)

\* A variant of parse_field that takes anything but an identifier for a
\* field without a name and consumes nothing.
parse_field_optional(p) ==
    IF ~current_is(p, "Ident") THEN Parsed([name |-> "", ty |-> TypePath("")], p)
    ELSE Then(parse_ident(p), LAMBDA field_name :
         Then(expect(field_name.p, Tok("Colon")), LAMBDA colon :
         Then(parse_type(colon.p), LAMBDA ty :
         Parsed([name |-> field_name.val, ty |-> ty.val], ty.p))))

\* One field `name: type` of parse_struct and of a named enum variant.
parse_field(p) ==
    Then(parse_ident(p), LAMBDA field_name :
    Then(expect(field_name.p, Tok("Colon")), LAMBDA colon :
    Then(parse_type(colon.p), LAMBDA ty :
    Parsed([name |-> field_name.val, ty |-> ty.val], ty.p))))

\* Parser::parse_struct
parse_struct(p) ==
    Then(expect(p, Tok("Struct")), LAMBDA struct :
    Then(parse_ident(struct.p), LAMBDA name :
    Then(parse_generics(name.p), LAMBDA generics :
    Then(expect(generics.p, Tok("LeftBrace")), LAMBDA open :
    Then(parse_list(open.p, Tok("RightBrace"), "field", <<>>), LAMBDA fields :
    Then(expect(fields.p, Tok("RightBrace")), LAMBDA close :
    Parsed(NamedItem("Struct", name.val,
                     [generics |-> generics.val, fields |-> fields.val]),
           close.p)))))))

\* parse_enum, one round of the loop up to the push of the Variant.
parse_variant(p) ==
    Then(parse_ident(p), LAMBDA variant_name :
    IF current_is(variant_name.p, "LeftParen")
    THEN Then(parse_list(advance(variant_name.p), Tok("RightParen"), "type", <<>>),
              LAMBDA tuple_fields :
         Then(expect(tuple_fields.p, Tok("RightParen")), LAMBDA close :
         Parsed([name |-> variant_name.val,
                 fields |-> [tag |-> "Tuple", fields |-> tuple_fields.val]], close.p)))
    ELSE IF current_is(variant_name.p, "LeftBrace")
    THEN Then(parse_list(advance(variant_name.p), Tok("RightBrace"), "field", <<>>),
              LAMBDA named_fields :
         Then(expect(named_fields.p, Tok("RightBrace")), LAMBDA close :
         Parsed([name |-> variant_name.val,
                 fields |-> [tag |-> "Named", fields |-> named_fields.val]], close.p)))
    ELSE Parsed([name |-> variant_name.val, fields |-> [tag |-> "Unit"]],
                variant_name.p))

\* Parser::parse_enum
parse_enum(p) ==
    Then(expect(p, Tok("Enum")), LAMBDA enum :
    Then(parse_ident(enum.p), LAMBDA name :
    Then(parse_generics(name.p), LAMBDA generics :
    Then(expect(generics.p, Tok("LeftBrace")), LAMBDA open :
    Then(parse_list(open.p, Tok("RightBrace"), "variant", <<>>), LAMBDA variants :
    Then(expect(variants.p, Tok("RightBrace")), LAMBDA close :
    Parsed(NamedItem("Enum", name.val,
                     [generics |-> generics.val, variants |-> variants.val]),
           close.p)))))))

\* `(params) -> return_type`, of parse_function and of a method of
\* parse_trait.
parse_signature(p) ==
    Then(expect(p, Tok("LeftParen")), LAMBDA open :
    Then(parse_params(open.p), LAMBDA params :
    Then(expect(params.p, Tok("RightParen")), LAMBDA close :
    Then(IF current_is(close.p, "Arrow") THEN optional(parse_type(advance(close.p)))
         ELSE Parsed(None, close.p), LAMBDA return_type :
    Parsed([params |-> params.val, return_type |-> return_type.val], return_type.p)))))

\* parse_trait, one round of the loop over the methods.
parse_trait_method(p) ==
    Then(expect(p, Tok("Fn")), LAMBDA fn :
    Then(parse_ident(fn.p), LAMBDA method_name :
    Then(parse_signature(method_name.p), LAMBDA sig :
    Then(IF current_is(sig.p, "LeftBrace") THEN optional(parse_block(sig.p))
         ELSE Then(expect(sig.p, Tok("Semicolon")), LAMBDA semi : Parsed(None, semi.p)),
         LAMBDA body :
    Parsed([name |-> method_name.val, params |-> sig.val.params,
            return_type |-> sig.val.return_type, body |-> body.val], body.p)))))

\* Parser::parse_trait
parse_trait(p) ==
    Then(expect(p, Tok("Trait")), LAMBDA trait :
    Then(parse_ident(trait.p), LAMBDA name :
    Then(parse_generics(name.p), LAMBDA generics :
    Then(expect(generics.p, Tok("LeftBrace")), LAMBDA open :
    Then(parse_until(open.p, Tok("RightBrace"), "trait_method", <<>>), LAMBDA methods :
    Then(expect(methods.p, Tok("RightBrace")), LAMBDA close :
    Parsed(NamedItem("Trait", name.val,
                     [generics |-> generics.val, methods |-> methods.val]),
           close.p)))))))

\* Parser::parse_function
parse_function(p) ==
    Then(expect(p, Tok("Fn")), LAMBDA fn :
    Then(parse_ident(fn.p), LAMBDA name :
    Then(parse_generics(name.p), LAMBDA generics :
    Then(parse_signature(generics.p), LAMBDA sig :
    Then(parse_block(sig.p), LAMBDA body :
    Parsed(NamedItem("Function", name.val,
                     [generics |-> generics.val, params |-> sig.val.params,
                      return_type |-> sig.val.return_type, body |-> body.val]),
           body.p))))))

\* parse_impl, the trait name before `for`, if the token after the current
\* one is `for`.
parse_trait_name(p) ==
    IF peek_of(p) = Tok("For")
    THEN Then(parse_ident(p), LAMBDA trait_name :
         Then(expect(trait_name.p, Tok("For")), LAMBDA for :
         Parsed(Some(trait_name.val), for.p)))
    ELSE Parsed(None, p)

\* Parser::parse_impl
parse_impl_tokens(p) ==
    Then(expect(p, Tok("Impl")), LAMBDA impl :
    Then(parse_generics(impl.p), LAMBDA generics :
    Then(parse_trait_name(generics.p), LAMBDA trait_name :
    Then(parse_type(trait_name.p), LAMBDA target_type :
    Then(expect(target_type.p, Tok("LeftBrace")), LAMBDA open :
    Then(parse_until(open.p, Tok("RightBrace"), "method", <<>>), LAMBDA methods :
    Then(expect(methods.p, Tok("RightBrace")), LAMBDA close :
    Parsed(ImplItem(trait_name.val, target_type.val,
                    [generics |-> generics.val, methods |-> methods.val]),
           close.p))))))))

\* Parser::parse_const
parse_const(p) ==
    Then(expect(p, Tok("Const")), LAMBDA const :
    Then(parse_ident(const.p), LAMBDA name :
    Then(expect(name.p, Tok("Colon")), LAMBDA colon :
    Then(parse_type(colon.p), LAMBDA ty :
    Then(expect(ty.p, Tok("Eq")), LAMBDA eq :
    Then(parse_expr(eq.p), LAMBDA value :
    Then(expect(value.p, Tok("Semicolon")), LAMBDA semi :
    Parsed(NamedItem("Const", name.val, [ty |-> ty.val, value |-> value.val]),
           semi.p))))))))

\* Parser::parse_item
parse_item_tokens(p) ==
    IF current_is(p, "Struct") THEN parse_struct(p)
    ELSE IF current_is(p, "Enum") THEN parse_enum(p)
    ELSE IF current_is(p, "Trait") THEN parse_trait(p)
    ELSE IF current_is(p, "Impl") THEN parse_impl_tokens(p)
    ELSE IF current_is(p, "Fn") THEN parse_function(p)
    ELSE IF current_is(p, "Const") THEN parse_const(p)
    ELSE IF current_is(p, "Let")
    THEN Then(parse_let_statement(p), LAMBDA let_stmt :
         Parsed(GlobalItem(let_stmt.val), let_stmt.p))
    ELSE Failed(UnexpectedToken("item", current_of(p)), p)

\* parse_use_tree_list, one round of the loop up to the push of the tree.
parse_use_tree(p) ==
    Then(parse_ident(p), LAMBDA name :
    IF current_is(name.p, "As")
    THEN Then(parse_ident(advance(name.p)), LAMBDA alias :
         Parsed(Alias(name.val, alias.val), alias.p))
    ELSE Parsed(Simple(name.val), name.p))

\* Parser::parse_use_tree_list
parse_use_tree_list(p) ==
    Then(expect(p, Tok("LeftBrace")), LAMBDA open :
    Then(parse_list(open.p, Tok("RightBrace"), "use_tree", <<>>), LAMBDA items :
    Then(expect(items.p, Tok("RightBrace")), LAMBDA close :
    Parsed(items.val, close.p))))

\* parse_use_statement from the loop over the `::` segments on, with the
\* path read so far.
RECURSIVE parse_use_path(_, _)
parse_use_path(p, path) ==
    IF current_is(p, "ColonColon")
    THEN IF current_is(advance(p), "Star")
         THEN Then(expect(advance(advance(p)), Tok("Semicolon")), LAMBDA semi :
              Parsed(UseStatement(path, Glob), semi.p))
         ELSE IF current_is(advance(p), "LeftBrace")
         THEN Then(parse_use_tree_list(advance(p)), LAMBDA items :
              Then(expect(items.p, Tok("Semicolon")), LAMBDA semi :
              Parsed(UseStatement(path, List(items.val)), semi.p)))
         ELSE Then(parse_ident(advance(p)), LAMBDA segment :
              parse_use_path(segment.p, Append(path, segment.val)))
    ELSE IF current_is(p, "As")
    THEN Then(parse_ident(advance(p)), LAMBDA alias :
         Then(expect(alias.p, Tok("Semicolon")), LAMBDA semi :
         Parsed(UseStatement(Front(path), Alias(Last(path), alias.val)), semi.p)))
    ELSE Then(expect(p, Tok("Semicolon")), LAMBDA semi :
         Parsed(UseStatement(Front(path), Simple(Last(path))), semi.p))

\* parse_use_statement, the `crate::` or `super::` a path may start with.
parse_use_prefix(p) ==
    IF current_of(p).tag \in {"Crate", "Super"}
    THEN Then(expect(advance(p), Tok("ColonColon")), LAMBDA sep :
         Parsed(IF current_is(p, "Crate") THEN <<"crate">> ELSE <<"super">>, sep.p))
    ELSE Parsed(<<>>, p)

\* Parser::parse_use_statement
parse_use_statement_tokens(p) ==
    Then(expect(p, Tok("Use")), LAMBDA use :
    Then(parse_use_prefix(use.p), LAMBDA prefix :
    Then(parse_ident(prefix.p), LAMBDA first :
    parse_use_path(first.p, Append(prefix.val, first.val)))))

\* `name: element` of a struct pattern or of a struct literal.
parse_named(p, kind) ==
    Then(parse_ident(p), LAMBDA field_name :
    Then(expect(field_name.p, Tok("Colon")), LAMBDA colon :
    Then(IF kind = "field_pattern" THEN parse_pattern(colon.p) ELSE parse_expr(colon.p),
         LAMBDA element :
    Parsed(<<field_name.val, element.val>>, element.p))))

\* What one round of a loop parses, by the kind of its elements.
parse_element(p, kind) ==
    CASE kind = "type" -> parse_type(p)
      [] kind = "field" -> parse_field(p)
      [] kind = "variant" -> parse_variant(p)
      [] kind = "generic" -> parse_ident(p)
      [] kind = "parameter" -> parse_param(p)
      [] kind = "pattern" -> parse_pattern(p)
      [] kind \in {"field_pattern", "field_value"} -> parse_named(p, kind)
      [] kind \in {"argument", "tuple_element", "array_element"} -> parse_expr(p)
      [] kind = "use_tree" -> parse_use_tree(p)
      [] kind = "statement" -> parse_statement(p)
      [] kind = "match_arm" -> parse_match_arm(p)
      [] kind = "trait_method" -> parse_trait_method(p)
      [] kind = "method" -> parse_function(p)
      [] kind = "use" -> parse_use_statement_tokens(p)
      [] kind = "item" -> parse_item_tokens(p)

\* parse_program, the loop `while current == Use`.
RECURSIVE parse_imports(_, _)
parse_imports(p, imports) ==
    IF ~current_is(p, "Use") THEN Parsed(imports, p)
    ELSE Then(parse_element(p, "use"), LAMBDA r :
         parse_imports(round(r.p, "use", p.position), Append(imports, r.val)))

\* Parser::parse_program
parse_program_tokens(p) ==
    Then(parse_imports(p, <<>>), LAMBDA imports :
    Then(parse_until(imports.p, Eof, "item", <<>>), LAMBDA items :
    Parsed(Program(imports.val, items.val), items.p)))

\* parser::parse
parse(tokens) == parse_program_tokens(Parser_new(tokens))

(***************************************************************************)
(* parse on token lists: the tokens of function bodies, parameter lists,   *)
(* expressions and items written as words, one word for each token.        *)
(***************************************************************************)
\* The token tokenize gives for a word: a keyword, an operator or a
\* punctuation mark, a number, or an identifier.
TokenOf(w) ==
    LET pairs == (".." :> <<".", ".">>) @@ ("::" :> <<":", ":">>)
                   @@ ("->" :> <<"-", ">">>) @@ ("&&" :> <<"&", "&">>)
                   @@ ("||" :> <<"|", "|">>) @@ ("!=" :> <<"!", "=">>)
                   @@ ("==" :> <<"=", "=">>) @@ ("=>" :> <<"=", ">">>)
                   @@ ("<=" :> <<"<", "=">>) @@ ("<<" :> <<"<", "<">>)
                   @@ (">=" :> <<">", "=">>) @@ (">>" :> <<">", ">">>)
        ints == ("0" :> 0) @@ ("1" :> 1) @@ ("2" :> 2)
    IN IF w \in DOMAIN Keywords THEN Keywords[w]
       ELSE IF w \in DOMAIN OneCharTokens THEN OneCharTokens[w]
       ELSE IF w \in DOMAIN pairs THEN TwoCharTokens[pairs[w]]
       ELSE IF w \in DOMAIN ints THEN IntLiteral(ints[w])
       ELSE IF w = "1.5" THEN FloatLiteral(<<"1">>, <<"5">>)
       ELSE Ident(w)

\* The token list of a text given by its words.
Tokens(words) == [i \in 1..Len(words) |-> TokenOf(words[i])] \o <<Eof>>

\* The most tokens of an enumerated run inside a function body, and the
\* most parameters of an enumerated parameter list.
MaxBody == 3
MaxParams == 2

\* fn f() { words }
Body(words) == <<"fn", "f", "(", ")", "{">> \o words \o <<"}">>

\* The sequences of at most n elements of the set.
UpTo(alphabet, n) == UNION {[1..k -> alphabet] : k \in 0..n}

RECURSIVE Flatten(_)
Flatten(seqs) == IF seqs = <<>> THEN <<>> ELSE Head(seqs) \o Flatten(Tail(seqs))

BinaryWords ==
    {"||", "&&", "|", "^", "&", "==", "!=", "<", "<=", ">", ">=", "<<", ">>",
     "+", "-", "*", "/", "%"}

\* return a o1 b o2 c; with and without a range as the middle operand,
\* and the unary and postfix forms next to a binary operator.
ExpressionTexts ==
    {Body(<<"return", "a", o1, "b", o2, "c", ";">>) : o1 \in BinaryWords, o2 \in BinaryWords}
      \cup {Body(<<"return", "a", o1, "0", "..", "b", o2, "c", ";">>) :
                o1 \in {"*", "+"}, o2 \in {"+", "=="}}
      \cup {Body(<<"return", u, "a", o, "b", ";">>) : u \in {"-", "!"}, o \in BinaryWords}
      \cup {Body(<<"return", "a", o, u, "b", ".", "x", ";">>) :
                u \in {"-", "!"}, o \in BinaryWords}

\* One parameter, well-formed or not.
ParamTexts ==
    {<<"self">>, <<"&", "self">>, <<"&", "mut", "self">>, <<"mut", "self">>,
     <<"x", ":", "i32">>, <<"mut", "x", ":", "i32">>, <<"x">>, <<"mut", "x">>,
     <<"self", ":", "T">>, <<"&", "mut", "self", ":", "T">>, <<"&", "x", ":", "i32">>}

\* fn f(p1, p2, ..) { }
ParamListText(params) ==
    <<"fn", "f", "(">>
      \o Flatten([i \in 1..Len(params) |->
                    IF i = 1 THEN params[i] ELSE <<",">> \o params[i]])
      \o <<")", "{", "}">>

ParamListTexts == {ParamListText(ps) : ps \in UpTo(ParamTexts, MaxParams) \ {<<>>}}

\* An identifier followed by `{`, a run of tokens and `}`, as a statement.
BraceTexts ==
    {Body(<<name, "{">> \o run \o <<"}">>) :
        name \in {"Point", "None"},
        run \in UpTo({"a", ":", "1", "}", ";", "return", ","}, MaxBody)}

\* for i in start..run { }
ForTexts ==
    {Body(<<"for", "i", "in">> \o start \o <<"..">> \o run \o <<"{", "}">>) :
        start \in {<<>>, <<"0">>, <<"n">>},
        run \in UpTo({"self", "-", "!", "1.5", "1", "m", "(", ")", "."}, 2)}

\* Function bodies of any tokens.
AnyTexts ==
    {Body(run) : run \in UpTo({"a", "1", "(", ")", "{", ";", "=", "+", "let"}, MaxBody)}

SampleTexts ==
    {Body(<<"Point", "{", "return", "1", ";", "}">>),
     Body(<<"for", "i", "in", "0", "..", "self", ".", "n", "{", "}">>),
     Body(<<"return", "P", "{", "a", ";", "}">>),
     Body(<<"return", "P", "{", "a", ":", "1", "}", ";">>),
     Body(<<"f", "(", "a", ",", "b", ")", ";", "g", "(", ")">>),
     Body(<<"match", "a", "{", "1", "=>", "b", ",", "_", "=>", "c", "}">>),
     Body(<<"if", "a", "{", "}", "else", "if", "b", "{", "}", "else", "{", "}">>),
     <<"struct", "S", "{", "x", ":", "i32", ",", "y", ":", "i32", "}">>,
     <<"struct", "S", "{", ":", "}">>,
     <<"enum", "E", "{", "A", ",", "B", "(", "i32", ")", ",", "C", "{", "x", ":",
       "i32", "}", "}">>,
     <<"impl", "&", "for">>,
     <<"impl", "T", "for", "S", "{", "fn", "g", "(", "self", ")", "{", "}", "}">>,
     <<"trait", "T", "{", "fn", "g", "(", "&", "self", ")", ";", "}">>,
     <<"use", "crate", "::", "a", "::", "{", "B", ",", "C", "as", "D", "}", ";",
       "use", "a", "::", "*", ";", "const", "N", ":", "i32", "=", "1", ";">>,
     <<"fn", "f", "<", "T", ",", "U", ">", "(", "x", ":", "T", ")", "->", "U", "{", "}">>,
     <<"pub", "fn", "f", "(", ")", "{", "}">>}

ParseTexts ==
    ExpressionTexts \cup ParamListTexts \cup BraceTexts \cup ForTexts
      \cup AnyTexts \cup SampleTexts

InitSyn ==
    /\ \E text \in ParseTexts :
          syn = [pc |-> "parsing", text |-> text, tokens |-> Tokens(text),
                 result |-> None]
    /\ fs = <<>> /\ base_path = <<>>
    /\ IdleLoader /\ IdleResolve /\ IdleFilter /\ IdleCli /\ IdleLex /\ IdleParse

\* A call of parser::parse on the tokens.
ParseTokens ==
    /\ syn.pc = "parsing"
    /\ syn' = [syn EXCEPT !.pc = "done", !.result = Some(parse(syn.tokens))]
    /\ UNCHANGED <<fs, base_path, pc, loaderVars, resolveVars, filterVars, cli, lex, prs>>

NextSyn == ParseTokens

SpecSyn == InitSyn /\ [][NextSyn]_vars

\* parse has returned; what it returned; the parser it ran on.
SynDone == syn.pc = "done"
SynResult == syn.result[1]
SynOk == SynDone /\ SynResult.tag = "Ok"
SynErr == SynDone /\ SynResult.tag = "Err"

\* The statements of the body of the only function of the program parsed.
BodyStatements == SynResult.val.items[1].body.body.statements

\* The parameters of the only function of the program parsed.
FunctionParams == SynResult.val.items[1].body.params

\* The receiver forms, and what the `: type` of a parameter text names.
ReceiverTexts == {<<"self">>, <<"&", "self">>, <<"&", "mut", "self">>}
HasAnnotation(t) == Len(t) >= 2 /\ t[Len(t) - 1] = ":"
BeforeAnnotation(t) == IF HasAnnotation(t) THEN SubSeq(t, 1, Len(t) - 2) ELSE t

\* The Param a parameter text stands for, if it is a receiver or a name,
\* with or without `mut`, and a type.
ParamOf(t) ==
    LET core == BeforeAnnotation(t) IN
    IF core \in ReceiverTexts
    THEN Some([name |-> "self",
               ty |-> TypePath(IF HasAnnotation(t) THEN t[Len(t)] ELSE "Self"),
               is_self |-> TRUE, is_mut |-> core = <<"&", "mut", "self">>])
    ELSE IF HasAnnotation(t) /\ core \in {<<"x">>, <<"mut", "x">>}
    THEN Some([name |-> "x", ty |-> TypePath(t[Len(t)]),
               is_self |-> FALSE, is_mut |-> core[1] = "mut"])
    ELSE None

\* A parameter that is no receiver and has no `: type`.
LacksType(t) == t \in {<<"x">>, <<"mut", "x">>}

\* C23: parse_params accepts `self`, `&self` and `&mut self`, each a Param
\* named "self" with is_self set, of type Path("Self") unless a `: type`
\* follows, and with is_mut set for `&mut self` only; any other parameter has
\* is_self unset, must have `: type`, and has is_mut set exactly when `mut`
\* comes before its name.
C23_SelfReceivers ==
    SynDone =>
      \A ps \in UpTo(ParamTexts, MaxParams) :
         (ps # <<>> /\ syn.text = ParamListText(ps)) =>
            /\ (\A i \in 1..Len(ps) : ParamOf(ps[i]) # None) =>
                   /\ SynOk
                   /\ FunctionParams = [i \in 1..Len(ps) |-> ParamOf(ps[i])[1]]
            /\ \A i \in 1..Len(ps) :
                   (LacksType(ps[i]) /\ \A j \in 1..(i - 1) : ParamOf(ps[j]) # None)
                      => SynErr

\* Two receivers and a parameter list with `mut x: i32` after `&mut self`
\* have been parsed.
C23_Witness ==
    /\ SynOk
    /\ syn.text = ParamListText(<<(<<"&", "mut", "self">>), <<"mut", "x", ":", "i32">>>>)
    /\ FunctionParams[1].is_self /\ FunctionParams[1].is_mut
    /\ FunctionParams[1].ty = TypePath("Self")
    /\ ~FunctionParams[2].is_self /\ FunctionParams[2].is_mut

\* The ladder of binary operators as written in source text, lowest level
\* first, and the BinaryOp of each.
Ladder ==
    <<{"||"}, {"&&"}, {"|"}, {"^"}, {"&"}, {"==", "!="}, {"<", "<=", ">", ">="},
      {"<<", ">>"}, {"+", "-"}, {"*", "/", "%"}>>

LevelOf(o) == CHOOSE l \in 1..Len(Ladder) : o \in Ladder[l]

OperatorOf ==
    ("||" :> "Or") @@ ("&&" :> "And") @@ ("|" :> "BitOr") @@ ("^" :> "BitXor")
      @@ ("&" :> "BitAnd") @@ ("==" :> "Eq") @@ ("!=" :> "Ne") @@ ("<" :> "Lt")
      @@ ("<=" :> "Le") @@ (">" :> "Gt") @@ (">=" :> "Ge") @@ ("<<" :> "Shl")
      @@ (">>" :> "Shr") @@ ("+" :> "Add") @@ ("-" :> "Sub") @@ ("*" :> "Mul")
      @@ ("/" :> "Div") @@ ("%" :> "Mod")

UnaryOf == ("-" :> "Neg") @@ ("!" :> "Not")

\* x o1 y o2 z as the ladder groups it: the operator of the higher level is
\* the deeper node, and operators of one level group to the left.
Grouped(x, o1, y, o2, z) ==
    IF LevelOf(o2) > LevelOf(o1)
    THEN Binary(OperatorOf[o1], x, Binary(OperatorOf[o2], y, z))
    ELSE Binary(OperatorOf[o2], Binary(OperatorOf[o1], x, y), z)

\* The expression of the return statement that is the body parsed.
ReturnedExpr == BodyStatements[1].expr[1]

\* How deep the node of the binary operator op lies in e; 0 if e has none.
RECURSIVE DepthOf(_, _)
DepthOf(e, op) ==
    LET below(sub) == IF DepthOf(sub, op) = 0 THEN 0 ELSE 1 + DepthOf(sub, op)
        first(a, b) == IF a # 0 THEN a ELSE b
    IN IF e.tag = "Binary"
       THEN IF e.op = op THEN 1 ELSE first(below(e.left), below(e.right))
       ELSE IF e.tag = "Unary" THEN below(e.expr)
       ELSE IF e.tag = "Range"
       THEN first(IF e.start = None THEN 0 ELSE below(e.start[1]),
                  IF e.end = None THEN 0 ELSE below(e.end[1]))
       ELSE 0

\* C21: between operands that are not ranges with an end endpoint, of two
\* binary operators the one of the higher level of the ladder is the deeper
\* node whatever their order, operators of one level group to the left, a
\* unary operator binds tighter than any binary one and a postfix form
\* tighter than a unary operator.
C21_PrecedenceLadder ==
    SynDone =>
      /\ \A o1 \in BinaryWords, o2 \in BinaryWords :
            syn.text = Body(<<"return", "a", o1, "b", o2, "c", ";">>) =>
               /\ SynOk
               /\ ReturnedExpr =
                    Grouped(ExprIdent("a"), o1, ExprIdent("b"), o2, ExprIdent("c"))
      /\ \A u \in DOMAIN UnaryOf, o \in BinaryWords :
            /\ syn.text = Body(<<"return", u, "a", o, "b", ";">>) =>
                  /\ SynOk
                  /\ ReturnedExpr =
                       Binary(OperatorOf[o], Unary(UnaryOf[u], ExprIdent("a")),
                              ExprIdent("b"))
            /\ syn.text = Body(<<"return", "a", o, u, "b", ".", "x", ";">>) =>
                  /\ SynOk
                  /\ ReturnedExpr =
                       Binary(OperatorOf[o], ExprIdent("a"),
                              Unary(UnaryOf[u],
                                    [tag |-> "Field", expr |-> ExprIdent("b"),
                                     field |-> "x"]))

\* `a & b == c` has been parsed into BitAnd(a, Eq(b, c)), and `a == b & c`
\* into BitAnd(Eq(a, b), c).
C21_Witness ==
    /\ SynOk
    /\ \/ /\ syn.text = Body(<<"return", "a", "&", "b", "==", "c", ";">>)
          /\ ReturnedExpr.op = "BitAnd" /\ ReturnedExpr.right.op = "Eq"
       \/ /\ syn.text = Body(<<"return", "a", "==", "b", "&", "c", ";">>)
          /\ ReturnedExpr.op = "BitAnd" /\ ReturnedExpr.left.op = "Eq"

\* The statement for every unparenthesized expression, a range among the
\* operands included: of two binary operators of different levels the one
\* of the higher level is the deeper node.
C21_HigherLevelDeeper ==
    SynOk =>
      \A o1 \in BinaryWords, o2 \in BinaryWords :
         (/\ LevelOf(o1) # LevelOf(o2)
          /\ syn.text \in {Body(<<"return", "a", o1, "b", o2, "c", ";">>),
                           Body(<<"return", "a", o1, "0", "..", "b", o2, "c", ";">>)})
            => (LevelOf(o1) > LevelOf(o2)
                  <=> DepthOf(ReturnedExpr, OperatorOf[o1])
                        > DepthOf(ReturnedExpr, OperatorOf[o2]))

\* The position of the token after the `..` of `fn f() { for i in start..`.
AfterDotDot(start) == 9 + Len(start)

\* The start endpoint a text gives a range.
StartOf(start) ==
    IF start = <<>> THEN None
    ELSE IF start = <<"0">> THEN Some(Literal("Int", 0))
    ELSE Some(ExprIdent(start[1]))

\* The primary expression an expression starts with: the leftmost operand,
\* under its field accesses, method calls and indexings.
RECURSIVE Leftmost(_)
Leftmost(e) ==
    IF e.tag = "Binary" THEN Leftmost(e.left)
    ELSE IF e.tag \in {"Field", "MethodCall", "Index"} THEN Leftmost(e.expr)
    ELSE e

\* C27: after `..` a range end is parsed only when the next token is an
\* integer literal, an identifier or `(`; with any other next token the range
\* has no end and parse_primary_expr does not consume the token. A `.` or a
\* `-` is then taken by the postfix or the additive loop around the range;
\* with any other token a `for` over the range has a body only if the token
\* is the `{` of the body, and else fails at that token for want of a `{`.
C27_RangeEndStarts ==
    SynDone =>
      \A start \in {<<>>, <<"0">>, <<"n">>},
         run \in UpTo({"self", "-", "!", "1.5", "1", "m", "(", ")", ".", "n"}, 3) :
         syn.text = Body(<<"for", "i", "in">> \o start \o <<"..">> \o run \o <<"{", "}">>)
           => LET next == TokenOf((run \o <<"{">>)[1])
                  stopped == /\ SynErr
                             /\ SynResult.p.position = AfterDotDot(start)
                             /\ SynResult.err = UnexpectedToken("LeftBrace", next)
              IN IF next.tag \in {"IntLiteral", "Ident", "LeftParen"}
                 THEN /\ ~stopped
                      /\ SynOk => Leftmost(BodyStatements[1].iter).start = StartOf(start)
                                    /\ Leftmost(BodyStatements[1].iter).end # None
                 ELSE IF next.tag \in {"Dot", "Minus"}
                 THEN /\ SynErr => SynResult.p.position > AfterDotDot(start)
                      /\ SynOk => Leftmost(BodyStatements[1].iter)
                                     = ExprRange(StartOf(start), None)
                 ELSE IF run = <<>>
                 THEN /\ SynOk
                      /\ BodyStatements[1].iter = ExprRange(StartOf(start), None)
                 ELSE stopped

\* `for i in 0..self.n { }` has been rejected at `self`, where a `{` was
\* wanted.
C27_Witness ==
    /\ SynErr
    /\ syn.text = Body(<<"for", "i", "in", "0", "..", "self", ".", "n", "{", "}">>)
    /\ SynResult.err = UnexpectedToken("LeftBrace", Tok("Self_"))
    /\ SynResult.p.position = AfterDotDot(<<"0">>)

\* The position of the `{` in `fn f() { name {`: that of the first token
\* after a body of one token.
BracePosition == Len(Body(<<"name">>)) - 1

\* The parser went back to the `{` after looking past it; it looked past an
\* identifier after the `{` and did not go back to the `{`.
WentBackToBrace ==
    \E i \in DOMAIN SynResult.p.log :
       SynResult.p.log[i].ev = "restore" /\ SynResult.p.log[i].to = BracePosition
TookStructLiteral ==
    /\ \E i \in DOMAIN SynResult.p.log :
          SynResult.p.log[i].ev = "restore" /\ SynResult.p.log[i].to = BracePosition + 1
    /\ ~WentBackToBrace

\* The two tokens at the head of a run are an identifier and a colon.
LooksLikeField(run) == Len(run) >= 2 /\ run[1] = "a" /\ run[2] = ":"

PointExample == Body(<<"Point", "{", "return", "1", ";", "}">>)

\* C22: an identifier other than None and Some followed by `{` becomes a
\* struct literal if and only if the two tokens after the `{` are an
\* identifier and a colon; otherwise the position goes back to exactly the
\* `{` and the expression is the identifier alone, the `{` then opening a
\* block expression: the body of `fn f(){ Point { return 1; } }` is the
\* statement `Point` and the statement of a block that holds the return.
\* After None no lookahead takes place.
C22_StructLiteralLookahead ==
    SynDone =>
      /\ \A run \in UpTo({"a", ":", "1", "}", ";", "return", ","}, MaxBody) :
            /\ syn.text = Body(<<"Point", "{">> \o run \o <<"}">>) =>
                  /\ LooksLikeField(run) <=> TookStructLiteral
                  /\ ~LooksLikeField(run) <=> WentBackToBrace
                  /\ SynOk =>
                        IF LooksLikeField(run)
                        THEN /\ BodyStatements[1].tag = "Expr"
                             /\ BodyStatements[1].expr.tag = "Struct"
                             /\ BodyStatements[1].expr.name = "Point"
                        ELSE /\ BodyStatements[1] =
                                  [tag |-> "Expr", expr |-> ExprIdent("Point")]
                             /\ BodyStatements[2].tag = "Expr"
                             /\ BodyStatements[2].expr.tag = "Block"
            /\ syn.text = Body(<<"None", "{">> \o run \o <<"}">>) =>
                  /\ ~TookStructLiteral /\ ~WentBackToBrace
                  /\ SynOk => BodyStatements[1] = [tag |-> "Expr", expr |-> [tag |-> "None"]]
      /\ syn.text = PointExample =>
            /\ SynOk
            /\ BodyStatements =
                 <<[tag |-> "Expr", expr |-> ExprIdent("Point")],
                   [tag |-> "Expr",
                    expr |-> [tag |-> "Block",
                              block |-> [statements |->
                                  <<[tag |-> "Return",
                                     expr |-> Some(Literal("Int", 1))]>>]]]>>

\* `Point { a: 1 }` has been parsed into a struct literal, or
\* `Point { return 1; }` into two statements after a step back to the `{`.
C22_Witness ==
    /\ SynOk
    /\ \/ /\ syn.text = Body(<<"Point", "{", "a", ":", "1", "}">>)
          /\ TookStructLiteral /\ BodyStatements[1].expr.tag = "Struct"
       \/ /\ syn.text = PointExample
          /\ WentBackToBrace /\ Len(BodyStatements) = 2

\* The statement for every identifier, None included, with the body of the
\* example as a statement of the identifier followed by a return statement.
C22_IdentifierThenReturn ==
    SynDone =>
      /\ \A name \in {"Point", "None"} :
            syn.text = Body(<<name, "{", "a", ":", "1", "}">>) =>
               /\ SynOk
               /\ BodyStatements[1].tag = "Expr"
               /\ BodyStatements[1].expr.tag = "Struct"
      /\ syn.text = PointExample =>
            /\ SynOk
            /\ BodyStatements =
                 <<[tag |-> "Expr", expr |-> ExprIdent("Point")],
                   [tag |-> "Return", expr |-> Some(Literal("Int", 1))]>>

\* The first n tokens of the tokens parsed, followed by other tokens.
Continued(n, more) ==
    SubSeq(syn.tokens, 1, IF n < Len(syn.tokens) THEN n ELSE Len(syn.tokens)) \o more

\* Token runs to put in the place of the tokens after an error.
Continuations ==
    {<<>>,
     <<Eof>>,
     Tokens(<<"a", ":", "1", "}", ";", "}">>),
     Tokens(<<"T", "{", "}">>),
     Tokens(<<"for", "T", "{", "}">>),
     Tokens(<<")", "{", "}", "}">>)}

\* The parser's position at the error, and whether parse gives the same
\* error at the same position for the first n tokens followed by any of the
\* continuations.
ErrorPosition == SynResult.p.position
SameErrorAfter(n) ==
    \A more \in Continuations :
       LET again == parse(Continued(n, more)) IN
       /\ again.tag = "Err"
       /\ again.err = SynResult.err
       /\ again.p.position = ErrorPosition

\* C24: parse returns the error of the first failing expectation and no
\* Program: UnexpectedToken with the token at the parser's position as
\* found, or InvalidExpression; the result is the same whatever follows the
\* second token after the offending one, the tokens the struct-literal
\* lookahead and peek can have read.
C24_FirstErrorNoRecovery ==
    SynErr =>
      /\ DOMAIN SynResult = {"tag", "err", "p"}
      /\ \/ SynResult.err = InvalidExpression
         \/ /\ SynResult.err.kind = "UnexpectedToken"
            /\ SynResult.err.found = current_of(SynResult.p)
      /\ SameErrorAfter(ErrorPosition + 3)

\* `fn f() { return P { a; } }` has failed at the `{` after P, where a
\* semicolon was wanted.
C24_Witness ==
    /\ SynErr
    /\ syn.text = Body(<<"return", "P", "{", "a", ";", "}">>)
    /\ SynResult.err = UnexpectedToken("Semicolon", Tok("LeftBrace"))
    /\ ErrorPosition = 7

\* The statement as given: the result is the same whatever follows the
\* offending token.
C24_NothingAfterOffendingToken ==
    SynErr => SameErrorAfter(ErrorPosition + 1)

\* The moves of the position and the rounds of the loops of the parse.
Moves == SynResult.p.log

\* A move back from the lookahead after an identifier and a `{`: to the
\* `{` or to the token after it.
IsLookaheadRestore(m) ==
    /\ m.ev = "restore"
    /\ \/ /\ m.to >= 1
          /\ syn.tokens[m.to].tag = "Ident" /\ syn.tokens[m.to + 1].tag = "LeftBrace"
       \/ /\ m.to >= 2
          /\ syn.tokens[m.to - 1].tag = "Ident" /\ syn.tokens[m.to].tag = "LeftBrace"

\* C30: parse returns, and on its way the position stays between 0 and the
\* number of tokens, moves back only in the struct-literal lookahead and
\* then never to before the `{` after the identifier, and is further on
\* after every round of a loop (items, statements, fields, variants, match
\* arms, arguments and the other lists) that did not end in an error.
C30_ParseTerminates ==
    SynDone =>
      /\ SynResult.p.position \in 0..Len(syn.tokens)
      /\ \A i \in DOMAIN Moves :
            /\ Moves[i].from \in 0..Len(syn.tokens)
            /\ Moves[i].to \in 0..Len(syn.tokens)
            /\ Moves[i].to < Moves[i].from => IsLookaheadRestore(Moves[i])
            /\ Moves[i].ev = "round" => Moves[i].to > Moves[i].from
            /\ Moves[i].ev = "advance" => Moves[i].to = Moves[i].from + 1

\* A parse with a step back to a `{` and rounds of the loops over items,
\* statements and match arms, and one that went round the loop over fields.
C30_Witness ==
    /\ SynOk
    /\ \/ /\ \E i \in DOMAIN Moves : Moves[i].to < Moves[i].from
          /\ \A loop \in {"item", "statement", "match_arm"} :
                \E i \in DOMAIN Moves : Moves[i].ev = "round" /\ Moves[i].loop = loop
       \/ Cardinality({i \in DOMAIN Moves :
                         Moves[i].ev = "round" /\ Moves[i].loop = "field"}) >= 2

====
